---- MODULE Spec2Model ----
(***************************************************************************)
(* Bike pressure monitor: the sensor registry (State::m_data), the BLE     *)
(* ingestion callback (TPMSScanCallbacks::onDiscovered), the staleness     *)
(* sweep (State::cleanupOldSensors) and the pairing workflow               *)
(* (PairController), driven by the control loop of Application.            *)
(*                                                                         *)
(* Time is the value of esp_timer_get_time() / 1000 (milliseconds since    *)
(* boot).  The clock is observed at multiples of TimeStep.                 *)
(***************************************************************************)
EXTENDS Integers, Sequences, FiniteSets, TLC

----------------------------------------------------------------------------
(* Bounds of the model *)

\* the clock advances in steps of TimeStep milliseconds
TimeStep == 60000
\* number of clock steps explored
MaxTicks == 8

----------------------------------------------------------------------------
(* Program constants *)

SCAN_TIMEOUT_MS == 60000
MAIN_SCREEN_DELAY_MS == 4500
\* uint64_t threshold = 60000 * 7
threshold == 60000 * 7
LONG_PRESS_DURATION_MS == 2000
VERY_LONG_PRESS_DURATION_MS == 15000
BLE_SCAN_TIME_MS == 1000
SCAN_TIME_MS == 1000
DEFAULT_BRIGHTNESS_INDEX == 4
\* PairController::init(): pBLEScan->setWindow(99)
PAIRING_SCAN_WINDOW == 99
\* savePairingAndReboot()/initBLE(): pBLEScan->setWindow(50)
NORMAL_SCAN_WINDOW == 50
\* service UUID 0xA828 of Type 2 sensors
TYPE2_UUID == 43048

\* std::string() : the empty address
NoAddr == <<>>

\* enum class PairingState
SCANNING_FRONT == "SCANNING_FRONT"
WAITING_FRONT_CONFIRM == "WAITING_FRONT_CONFIRM"
SCANNING_REAR == "SCANNING_REAR"
WAITING_REAR_CONFIRM == "WAITING_REAR_CONFIRM"
TIMEOUT_FRONT == "TIMEOUT_FRONT"
TIMEOUT_REAR == "TIMEOUT_REAR"
COMPLETE == "COMPLETE"

PairingState ==
    {SCANNING_FRONT, WAITING_FRONT_CONFIRM, SCANNING_REAR,
     WAITING_REAR_CONFIRM, TIMEOUT_FRONT, TIMEOUT_REAR, COMPLETE}

----------------------------------------------------------------------------
(* Inputs: radio addresses and manufacturer payloads *)

\* "37:39:01:0a:0b:0c" (TC.TPMS manufacturer prefix) as its six bytes
AddrTC == <<55, 57, 1, 10, 11, 12>>
\* "c1:22:33:44:55:66"
AddrOther == <<193, 34, 51, 68, 85, 102>>

Addresses == {AddrTC, AddrOther}

\* 00 01 81 EA CA 20 04 10 23 06 00 00 1F 0B 00 00 09 00 (TPMSUtil.cpp:13)
PayloadA1 == <<0, 1, 129, 234, 202, 32, 4, 16, 35, 6, 0, 0, 31, 11, 0, 0, 9, 0>>
\* same sensor, other pressure, alert raised
PayloadA2 == <<0, 1, 129, 234, 202, 32, 4, 16, 36, 6, 0, 0, 31, 11, 0, 0, 9, 1>>
\* Type 2 payload: status 0, 2.8 V, 23 C, raw pressure 0x01B3
PayloadB1 == <<0, 28, 23, 1, 179, 0, 0, 0, 0, 0, 0>>
\* the advertisements the radio delivers: address, manufacturer data,
\* advertised service UUID (0 = none).  AddrOther sends Type 1 payloads;
\* the 11-byte payload is taken from AddrTC (manufacturer prefix) and
\* ignored from AddrOther (no prefix, no service UUID)
Advertisements ==
    [address : {AddrOther}, data : {PayloadA1, PayloadA2}, uuid : {0}]
    \cup [address : Addresses, data : {PayloadB1}, uuid : {0}]

\* further payloads for the ingestion pipeline on its own:
\* PayloadA1 with the alert raised and nothing else changed
PayloadA3 == <<0, 1, 129, 234, 202, 32, 4, 16, 35, 6, 0, 0, 31, 11, 0, 0, 9, 1>>
\* another sensor: number 0x90, id 01 02 03, battery 200, byte 17 = 2
PayloadA4 == <<0, 1, 144, 234, 202, 1, 2, 3, 35, 6, 0, 0, 31, 11, 0, 0, 200, 2>>
\* PayloadA1 with a wrong magic byte
PayloadBadMagic ==
    <<0, 1, 129, 235, 202, 32, 4, 16, 35, 6, 0, 0, 31, 11, 0, 0, 9, 0>>
\* PayloadA1 with sensor number byte 0x7F
PayloadLowNumber ==
    <<0, 1, 127, 234, 202, 32, 4, 16, 35, 6, 0, 0, 31, 11, 0, 0, 9, 0>>
\* PayloadA1 followed by one more byte
PayloadLong == PayloadA1 \o <<0>>
\* Type 2 payload with 1.0 V (below the 2.0 V of 0 %), alarm bit set
PayloadB2 == <<2, 10, 23, 1, 179, 0, 0, 0, 0, 0, 0>>
\* five bytes of some other device
PayloadShort == <<76, 0, 16, 5, 1>>

IngestPayloads ==
    {PayloadA1, PayloadA3, PayloadA4, PayloadBadMagic, PayloadLowNumber,
     PayloadLong, PayloadB1, PayloadB2, PayloadShort, <<>>}

\* the battery service 0x180F: a service UUID that is not 0xA828
BATTERY_UUID == 6159

IngestAdvertisements ==
    [address : Addresses, data : IngestPayloads,
     uuid : {0, TYPE2_UUID, BATTERY_UUID}]

----------------------------------------------------------------------------
(* Protocol decoders *)

\* data[i] of a C array, 0-based
At(data, i) == data[i + 1]

\* mutation: buffers longer than 18 bytes pass the length check
isTPMSSensor_atLeast(data) ==
    /\ Len(data) >= 18
    /\ ~(At(data, 0) # 0 \/ At(data, 1) # 1)
    /\ ~(At(data, 3) # 234 \/ At(data, 4) # 202)
    /\ ~(At(data, 2) < 128)

\* mutation: the check of the sensor number byte is missing
isTPMSSensor_noNumber(data) ==
    /\ Len(data) = 18
    /\ ~(At(data, 0) # 0 \/ At(data, 1) # 1)
    /\ ~(At(data, 3) # 234 \/ At(data, 4) # 202)

\* TPMSUtil::isTPMSSensor(const uint8_t* data, size_t length)
isTPMSSensor(data) ==
    /\ Len(data) = 18
    /\ ~(At(data, 0) # 0 \/ At(data, 1) # 1)
    /\ ~(At(data, 3) # 234 \/ At(data, 4) # 202)
    /\ ~(At(data, 2) < 128)

\* TPMSUtil::getLongValue(index): 32-bit little-endian, signed
getLongValue(data, index) ==
    LET hi == At(data, index + 3)
        lo == At(data, index) + At(data, index + 1) * 256
              + At(data, index + 2) * 65536
    IN  IF hi < 128 THEN lo + hi * 16777216
        ELSE lo + (hi - 256) * 16777216

\* mutation: the raw value is divided by 10000 instead of 1000
PsiOfRaw_scale(raw) ==
    LET q == raw \div 10000
        r == raw % 10000
    IN  q * 14504 + (r * 14504) \div 10000

\* parsePressure: kPa * 0.14503773773020923 with kPa = raw / 1000, in
\* units of 1e-5 PSI (split so that the product stays within 32 bits)
PsiOfRaw(raw) ==
    LET q == raw \div 1000
        r == raw % 1000
    IN  q * 14504 + (r * 14504) \div 1000

\* mutation: battery and alert are read from each other's byte
TPMSUtil_swapped(address, data, time) ==
    [ type         |-> "Type1",
      address      |-> address,
      id           |-> <<At(data, 5), At(data, 6), At(data, 7)>>,
      wheel        |-> (At(data, 2) - 128) % 256,
      pressurePSI  |-> PsiOfRaw(getLongValue(data, 8)),
      pressureBar  |-> getLongValue(data, 8),
      temperatureC |-> getLongValue(data, 12),
      battery      |-> At(data, 17),
      alert        |-> (At(data, 16) = 1),
      timestamp    |-> time ]

\* TPMSUtil::TPMSUtil(address, manufacturerData): the parsed reading
\*   pressurePSI in 1e-5 PSI, pressureBar in 1e-5 bar (kPa/100 = raw/1e5),
\*   temperatureC in 1e-2 C
TPMSUtil(address, data, time) ==
    [ type         |-> "Type1",
      address      |-> address,
      id           |-> <<At(data, 5), At(data, 6), At(data, 7)>>,
      wheel        |-> (At(data, 2) - 128) % 256,
      pressurePSI  |-> PsiOfRaw(getLongValue(data, 8)),
      pressureBar  |-> getLongValue(data, 8),
      temperatureC |-> getLongValue(data, 12),
      battery      |-> At(data, 16),
      alert        |-> (At(data, 17) = 1),
      timestamp    |-> time ]

\* TPMSUtil_Type2::isTPMSSensor_Type2(data, length)
isTPMSSensor_Type2(data) == Len(data) = 11

\* IEEE 754 single precision (float), as far as parseBattery needs it: a
\* float is m * 2^e with |m| <= 2^24

\* number of bits of n >= 0
BitLen(n) ==
    IF n >= 2^30 THEN 31
    ELSE CHOOSE k \in 0..30 : n < 2^k /\ (k = 0 \/ n >= 2^(k - 1))

\* n / 2^s rounded to the nearest integer, ties to even
RoundShift(n, s) ==
    IF s = 0 THEN n
    ELSE LET q == n \div 2^s
             r == n % 2^s
             half == 2^(s - 1)
         IN  IF r > half \/ (r = half /\ q % 2 = 1) THEN q + 1 ELSE q

\* the float nearest to m * 2^e
Float(m, e) ==
    LET a == IF m < 0 THEN 0 - m ELSE m
        s == IF BitLen(a) > 24 THEN BitLen(a) - 24 ELSE 0
        q == RoundShift(a, s)
    IN  [m |-> IF m < 0 THEN 0 - q ELSE q, e |-> e + s]

\* the value of a float with e <= 0, truncated towards zero
Truncated(f) ==
    LET a == IF f.m < 0 THEN 0 - f.m ELSE f.m
        t == a \div 2^(0 - f.e)
    IN  IF f.m < 0 THEN 0 - t ELSE t

\* parseBattery: m_batteryVoltage = rawBattery * 0.1f, where 0.1f is
\* 13421773 * 2^-27 = (3276 * 4096 + 3277) * 2^-27; the product has up to
\* 32 bits and is kept as upper * 4096 + lower
BatteryVoltage(rawBattery) ==
    IF rawBattery = 0 THEN [m |-> 0, e |-> -27]
    ELSE
      LET upper == rawBattery * 3276 + (rawBattery * 3277) \div 4096
          lower == (rawBattery * 3277) % 4096
          s == BitLen(upper) - 12
          q == upper * 2^(12 - s) + lower \div 2^s
          r == lower % 2^s
          half == IF s = 0 THEN 0 ELSE 2^(s - 1)
          up == s > 0 /\ (r > half \/ (r = half /\ q % 2 = 1))
      IN  [m |-> IF up THEN q + 1 ELSE q, e |-> s - 27]

\* parseBattery: float percentage = (m_batteryVoltage - 2.0f) * 100.0f
BatteryPercentage(rawBattery) ==
    LET v == BatteryVoltage(rawBattery)
        d == Float(v.m - 2^(1 - v.e), v.e)
    IN  Float(d.m * 100, d.e)

\* TPMSUtil_Type2::parseBattery():
\*   m_batteryPercentage = (percentage > 100.0f) ? 100 : (uint8_t)percentage
\* The conversion truncates.  A value of -1 or less converted to uint8_t
\* is undefined: the build yields 0 (saturating) or the low 8 bits.
Type2BatteryLevels(raw) ==
    LET percentage == BatteryPercentage(raw)
        t == Truncated(percentage)
        fraction == percentage.m % 2^(0 - percentage.e)
    IN  IF t > 100 \/ (t = 100 /\ fraction > 0) THEN {100}
        ELSE IF t >= 0 THEN {t}
        ELSE {0, t % 256}

\* mutation: byte[3] is taken for the low byte, byte[4] for the high one
Type2Psi_swapped(data) ==
    LET rawValue == (At(data, 3) + At(data, 4) * 256) % 65536
    IN  (10223 * rawValue + (139 * rawValue) \div 1000) - 1461233

\* TPMSUtil_Type2::parsePressure(): 0.10223139 * raw - 14.61232950 of the
\* 16-bit raw value, in units of 1e-5 PSI
Type2Psi(data) ==
    LET rawValue == (At(data, 4) + At(data, 3) * 256) % 65536
    IN  (10223 * rawValue + (139 * rawValue) \div 1000) - 1461233

\* TPMSUtil_Type2::TPMSUtil_Type2(address, data): the parsed readings
\* (a set: one reading per outcome of the battery conversion)
TPMSUtil_Type2(address, data, time) ==
    { [ type         |-> "Type2",
        address      |-> address,
        id           |-> <<address[4], address[5], address[6]>>,
        wheel        |-> address[3],
        pressurePSI  |-> Type2Psi(data),
        pressureBar  |-> 0,
        temperatureC |-> At(data, 2) * 100,
        battery      |-> b,
        alert        |-> ((At(data, 0) \div 2) % 2 = 1),
        timestamp    |-> time ] : b \in Type2BatteryLevels(At(data, 1)) }

\* address.find("37:39") == 0
isTC_TPMS(address) == address[1] = 55 /\ address[2] = 57

\* mutation: any advertised service UUID is taken for 0xA828
hasType2UUID_any(adv) == adv.uuid # 0

\* haveServiceUUID() && getServiceUUID().equals(NimBLEUUID("0xA828"))
hasType2UUID(adv) == adv.uuid # 0 /\ adv.uuid = TYPE2_UUID

----------------------------------------------------------------------------
(* State *)

VARIABLES
    now,                    \* esp_timer_get_time() / 1000
    mainShown,              \* controlLogicTask: main/pair screen shown
    m_data,                 \* State::m_data, in iteration order
    frontAddress,           \* State::m_frontAddress
    rearAddress,            \* State::m_rearAddress
    isPaired,               \* State::m_isPaired
    m_state,                \* PairController::m_state
    m_selectedFrontAddress, \* PairController::m_selectedFrontAddress
    m_selectedRearAddress,  \* PairController::m_selectedRearAddress
    m_scanStartTime,        \* PairController::m_scanStartTime
    m_lastSensorCount,      \* PairController::m_lastSensorCount
    m_pairingComplete,      \* PairController::m_pairingComplete
    config,                 \* ConfigManager: the persisted strings
    calls,                  \* requests made to the collaborators, in order
    restarted,              \* esp_restart() was called
    scan,                   \* NimBLEScan: the scan last started
    buttonState,            \* controlLogicTask: ButtonState buttonState
    m_wifiConfigMode,       \* Application::m_wifiConfigMode
    wifi_config_mode,       \* ConfigManager: the persisted integer
    m_currentBrightnessIndex, \* Application::m_currentBrightnessIndex
    invoked,                \* history: the calls of the last loop iteration
    heap,                   \* the TPMSUtil objects made with new
    sweep,                  \* cleanupOldSensors: its position and locals
    rawData,                \* the buffer and address given to a decoder
    parsed,                 \* the result of the last decoder call
    stage,                  \* history: how and when the current stage began
    last                    \* history: the last operation, its input and log

pairVars ==
    <<m_state, m_selectedFrontAddress, m_selectedRearAddress,
      m_scanStartTime, m_lastSensorCount, m_pairingComplete>>

stateVars == <<m_data, frontAddress, rearAddress, isPaired>>

sysVars == <<now, mainShown, config, calls, restarted, scan>>

\* the button, the mode and the brightness of Application
ctlVars ==
    <<buttonState, m_wifiConfigMode, wifi_config_mode,
      m_currentBrightnessIndex, invoked, heap>>

\* the locals of a running cleanupOldSensors, the decoder under test and
\* the state of the control loop
auxVars == <<sweep, rawData, parsed, ctlVars>>

vars == <<sysVars, stateVars, pairVars, auxVars, stage, last>>

NoAdv == [address |-> NoAddr, data |-> <<>>, uuid |-> 0]

\* cleanupOldSensors is not running
NoSweep ==
    [pc |-> "idle", currentTime |-> 0, it |-> NoAddr, sensor |-> {},
     removedCount |-> 0]

\* no TPMSUtil object has been allocated: `allocated` counts the objects
\* made with new (numbered from 1), `at` holds the pointer the map keeps
\* for each key, `deleted` the objects delete was applied to, `sensor` the
\* local of cleanupOldSensors (0: none), `ui` the locals frontSensor and
\* rearSensor of updateLabelsCallback (0: nullptr), `read` the last access
\* made through a pointer
NoHeap ==
    [allocated |-> 0, at |-> {}, deleted |-> {}, sensor |-> 0, ui |-> <<>>,
     read |-> [by |-> "none", objects |-> {}, freed |-> FALSE]]

\* no decoder has been called
NotParsed == [by |-> "none", sensors |-> {}]

\* the record kept in `last`
Last(op, adv, state, log) ==
    [op |-> op, adv |-> adv, state |-> state, log |-> log]

\* a request to a collaborator
Call(fn, key, value) == [fn |-> fn, key |-> key, value |-> value]

\* initBLE: setWindow(50), start(BLE_SCAN_TIME_MS, false, true)
NormalScan ==
    [running |-> TRUE, duration |-> BLE_SCAN_TIME_MS,
     window |-> NORMAL_SCAN_WINDOW]

\* PairController::init: setWindow(99), start(0, false, false)
PairingScan ==
    [running |-> TRUE, duration |-> 0, window |-> PAIRING_SCAN_WINDOW]

\* savePairingAndReboot: setWindow(50), start(0, false, false)
RestoredScan ==
    [running |-> TRUE, duration |-> 0, window |-> NORMAL_SCAN_WINDOW]

\* Wi-Fi configuration mode: initBLE is not called
NoScan == [running |-> FALSE, duration |-> 0, window |-> 0]

\* ButtonState buttonState = {}: the default member initialisers
Released ==
    [lastState |-> TRUE, pressStartTime |-> 0, pressHandled |-> FALSE]

----------------------------------------------------------------------------
(* Registry: std::unordered_map<std::string, TPMSUtil*> *)

\* m_data.contains(address)
contains(data, address) ==
    \E i \in 1..Len(data) : data[i].address = address

\* m_data.find(address)->second, for an address the map contains
find(data, address) ==
    data[CHOOSE i \in 1..Len(data) : data[i].address = address].sensor

\* m_data[address] = sensor for a key the map does not hold: the place of
\* the new element in the iteration order depends on its hash
InsertNew(data, address, sensor) ==
    { SubSeq(data, 1, k) \o <<[address |-> address, sensor |-> sensor]>>
        \o SubSeq(data, k + 1, Len(data)) : k \in 0..Len(data) }

\* mutation: the sensor is added instead of replaced
Assign_add(data, address, sensor) ==
    { Append(data, [address |-> address, sensor |-> sensor]) }

\* m_data[address] = sensor for a key the map holds: the element keeps its
\* place, its value is replaced
Assign(data, address, sensor) ==
    { [i \in 1..Len(data) |->
        IF data[i].address = address
        THEN [address |-> address, sensor |-> sensor]
        ELSE data[i]] }

\* mutation: the alert flag is left out of the comparison
DataChanged_noAlert(existingSensor, sensor) ==
    \/ existingSensor.pressurePSI # sensor.pressurePSI
    \/ existingSensor.temperatureC # sensor.temperatureC
    \/ existingSensor.battery # sensor.battery

\* onDiscovered: the change detection against the existing sensor
DataChanged(existingSensor, sensor) ==
    \/ existingSensor.pressurePSI # sensor.pressurePSI
    \/ existingSensor.temperatureC # sensor.temperatureC
    \/ existingSensor.battery # sensor.battery
    \/ existingSensor.alert # sensor.alert

\* onDiscovered: add or replace the sensor of `address`; the results are
\* the new map with the isNewSensor and dataChanged flags
Upsert(data, address, sensor) ==
    IF ~contains(data, address)
    THEN { [data |-> d, isNewSensor |-> TRUE, dataChanged |-> FALSE] :
             d \in InsertNew(data, address, sensor) }
    ELSE { [data |-> d, isNewSensor |-> FALSE,
            dataChanged |-> DataChanged(find(data, address), sensor)] :
             d \in Assign(data, address, sensor) }

\* the sensors onDiscovered parses from an advertisement (empty: ignored)
Parsed(adv, time) ==
    IF isTPMSSensor(adv.data)
    THEN {TPMSUtil(adv.address, adv.data, time)}
    ELSE IF isTPMSSensor_Type2(adv.data)
            /\ (hasType2UUID(adv) \/ isTC_TPMS(adv.address))
    THEN TPMSUtil_Type2(adv.address, adv.data, time)
    ELSE {}

\* the log line of onDiscovered
DiscoveryLog(r) ==
    IF r.isNewSensor THEN <<"Sensor found">>
    ELSE IF r.dataChanged THEN <<"Data changed">>
    ELSE <<>>

\* TPMSScanCallbacks::onDiscovered(advertisedDevice)
onDiscovered(adv) ==
    /\ ~restarted
    /\ IF Parsed(adv, now) = {}
       THEN /\ m_data' = m_data
            /\ last' = Last("onDiscovered", adv, m_state, <<>>)
       ELSE \E sensor \in Parsed(adv, now) :
              \E r \in Upsert(m_data, adv.address, sensor) :
                /\ m_data' = r.data
                /\ last' = Last("onDiscovered", adv, m_state, DiscoveryLog(r))
    /\ UNCHANGED <<sysVars, frontAddress, rearAddress, isPaired, pairVars,
                   auxVars, stage>>

\* mutation: < for >
IsStale_lt(currentTime, timestamp) ==
    \/ timestamp > currentTime
    \/ currentTime - timestamp < threshold

\* mutation: >= for >
IsStale_ge(currentTime, timestamp) ==
    \/ timestamp > currentTime
    \/ currentTime - timestamp >= threshold

\* cleanupOldSensors: currentTime - sensor->getTimestamp() > threshold,
\* in uint64_t arithmetic (a timestamp ahead of currentTime wraps around)
IsStale(currentTime, timestamp) ==
    \/ timestamp > currentTime
    \/ currentTime - timestamp > threshold

\* cleanupOldSensors: the map after the sweep
Swept(data, currentTime) ==
    SelectSeq(data, LAMBDA e : ~IsStale(currentTime, e.sensor.timestamp))

\* State::cleanupOldSensors(), called from UIController::lvglTimerTask
cleanupOldSensors ==
    /\ ~restarted
    /\ m_data' = Swept(m_data, now)
    /\ LET removedCount == Len(m_data) - Len(m_data')
       IN  last' = Last("cleanupOldSensors", NoAdv, m_state,
                        IF removedCount > 0 THEN <<"Cleanup complete">>
                        ELSE <<>>)
    /\ UNCHANGED <<sysVars, frontAddress, rearAddress, isPaired, pairVars,
                   auxVars, stage>>

----------------------------------------------------------------------------
(* Pairing workflow: PairController *)

Scanning == {SCANNING_FRONT, SCANNING_REAR}

\* the Timeout state update() enters from a Scanning state
TimeoutOf(state) ==
    IF state = SCANNING_FRONT THEN TIMEOUT_FRONT ELSE TIMEOUT_REAR

\* checkForNewSensor: currentCount > m_lastSensorCount && currentCount > 0
NewSensorAppeared(currentCount, lastSensorCount) ==
    currentCount > lastSensorCount /\ currentCount > 0

\* checkForNewSensor: for (pair : data) { newestAddress = pair.first; break; }
NewestAddress(data) == data[1].address

\* mutation: the candidate is compared with the rear address
DiffersFromFront_rear(newestAddress, front) == newestAddress # NoAddr

\* mutation: the comparison with the front address is dropped
DiffersFromFront_none(newestAddress, front) == TRUE

\* checkForNewSensor: newestAddress != m_selectedFrontAddress
DiffersFromFront(newestAddress, front) == newestAddress # front

\* mutation: the test for a Scanning state is dropped
checkForNewSensor_anyState(p, data) ==
    LET currentCount == Len(data)
        q == [p EXCEPT !.lastSensorCount = currentCount]
    IN  IF ~NewSensorAppeared(currentCount, p.lastSensorCount) THEN q
        ELSE
          LET newestAddress == NewestAddress(data)
          IN  IF p.state = SCANNING_FRONT
              THEN [q EXCEPT !.front = newestAddress,
                             !.state = WAITING_FRONT_CONFIRM,
                             !.log = @ \o <<"Front sensor found">>]
              ELSE IF DiffersFromFront(newestAddress, p.front)
              THEN [q EXCEPT !.rear = newestAddress,
                             !.state = WAITING_REAR_CONFIRM,
                             !.log = @ \o <<"Rear sensor found">>]
              ELSE [q EXCEPT
                      !.log = @ \o <<"Ignoring sensor - same as front">>]

\* PairController::checkForNewSensor() on the members p and the map
checkForNewSensor(p, data) ==
    IF p.state \notin Scanning THEN p
    ELSE
      LET currentCount == Len(data)
          q == [p EXCEPT !.lastSensorCount = currentCount]
      IN  IF ~NewSensorAppeared(currentCount, p.lastSensorCount) THEN q
          ELSE
            LET newestAddress == NewestAddress(data)
            IN  IF p.state = SCANNING_FRONT
                THEN [q EXCEPT !.front = newestAddress,
                               !.state = WAITING_FRONT_CONFIRM,
                               !.log = @ \o <<"Front sensor found">>]
                ELSE IF DiffersFromFront(newestAddress, p.front)
                THEN [q EXCEPT !.rear = newestAddress,
                               !.state = WAITING_REAR_CONFIRM,
                               !.log = @ \o <<"Rear sensor found">>]
                ELSE [q EXCEPT
                        !.log = @ \o <<"Ignoring sensor - same as front">>]

\* mutation: the countdown runs in every Scanning state
CountdownRuns_always(state, scanStartTime) == state \in Scanning

\* update: the countdown runs (a Scanning state and m_scanStartTime > 0)
CountdownRuns(state, scanStartTime) ==
    state \in Scanning /\ scanStartTime > 0

\* update: uint32_t elapsed = currentTime - m_scanStartTime
Elapsed(currentTime, scanStartTime) == currentTime - scanStartTime

\* mutation: the timeout is taken twice as long
TimeoutReached_late(elapsed) == ~(elapsed <= SCAN_TIMEOUT_MS * 2)

\* update: the else branch of `elapsed < SCAN_TIMEOUT_MS`
TimeoutReached(elapsed) == ~(elapsed < SCAN_TIMEOUT_MS)

\* mutation: the timeout is tested before the candidate detection
updateMembers_timeoutFirst(p, data, currentTime) ==
    IF p.state = COMPLETE THEN p
    ELSE IF CountdownRuns(p.state, p.scanStartTime)
            /\ TimeoutReached(Elapsed(currentTime, p.scanStartTime))
    THEN [p EXCEPT !.state = TimeoutOf(p.state),
                   !.scanStartTime = 0,
                   !.log = @ \o <<"Scan timeout">>]
    ELSE checkForNewSensor(p, data)

\* PairController::update(currentTime) on the members p and the map
updateMembers(p, data, currentTime) ==
    IF p.state = COMPLETE THEN p
    ELSE
      LET c == checkForNewSensor(p, data)
      IN  IF CountdownRuns(c.state, c.scanStartTime)
             /\ TimeoutReached(Elapsed(currentTime, c.scanStartTime))
          THEN [c EXCEPT !.state = TimeoutOf(c.state),
                         !.scanStartTime = 0,
                         !.log = @ \o <<"Scan timeout">>]
          ELSE c

\* the members of PairController as a record
Members ==
    [state |-> m_state, front |-> m_selectedFrontAddress,
     rear |-> m_selectedRearAddress, scanStartTime |-> m_scanStartTime,
     lastSensorCount |-> m_lastSensorCount, log |-> <<>>]

\* Application::controlLogicTask: m_pairController->update(currentTime)
update ==
    /\ ~restarted
    /\ mainShown
    /\ ~isPaired
    /\ LET u == updateMembers(Members, m_data, now)
       IN  /\ m_state' = u.state
           /\ m_selectedFrontAddress' = u.front
           /\ m_selectedRearAddress' = u.rear
           /\ m_scanStartTime' = u.scanStartTime
           /\ m_lastSensorCount' = u.lastSensorCount
           /\ last' = Last("update", NoAdv, m_state, u.log)
    /\ UNCHANGED <<sysVars, stateVars, auxVars, m_pairingComplete, stage>>

\* PairController::init(), called by handleScreenTransitions when the
\* sensors are not paired
init ==
    /\ m_state' = SCANNING_FRONT
    /\ m_selectedFrontAddress' = NoAddr
    /\ m_selectedRearAddress' = NoAddr
    /\ m_pairingComplete' = FALSE
    /\ m_scanStartTime' = 0
    /\ calls' = Append(calls, Call("setWindow", "", <<PAIRING_SCAN_WINDOW>>))
    /\ scan' = PairingScan
    /\ stage' = [at |-> now, by |-> "init", state |-> SCANNING_FRONT]
    /\ UNCHANGED m_lastSensorCount

\* Application::handleScreenTransitions: step 2, the main/pair screen
handleScreenTransitions ==
    /\ ~restarted
    /\ ~mainShown
    /\ now >= MAIN_SCREEN_DELAY_MS
    /\ IF isPaired
       THEN UNCHANGED <<pairVars, calls, scan, stage>>
       ELSE init
    /\ mainShown' = TRUE
    /\ last' = Last("handleScreenTransitions", NoAdv, m_state, <<>>)
    /\ UNCHANGED <<now, config, restarted, stateVars, auxVars>>

\* mutation: && for ||
MissingAddress_and(front, rear) == front = NoAddr /\ rear = NoAddr

\* savePairingAndReboot: m_selectedFrontAddress.empty() ||
\* m_selectedRearAddress.empty()
MissingAddress(front, rear) == front = NoAddr \/ rear = NoAddr

\* mutation: the restart is requested before the addresses are saved
SaveCalls_early(front, rear) ==
    << Call("esp_restart", "", <<>>),
       Call("setString", "front_address", front),
       Call("setString", "rear_address", rear),
       Call("setWindow", "", <<NORMAL_SCAN_WINDOW>>) >>

\* savePairingAndReboot: the requests to the collaborators, in code order
SaveCalls(front, rear) ==
    << Call("setString", "front_address", front),
       Call("setString", "rear_address", rear),
       Call("setWindow", "", <<NORMAL_SCAN_WINDOW>>),
       Call("esp_restart", "", <<>>) >>

\* PairController::savePairingAndReboot()
savePairingAndReboot ==
    IF MissingAddress(m_selectedFrontAddress, m_selectedRearAddress)
    THEN UNCHANGED <<config, frontAddress, rearAddress, isPaired, m_state,
                     m_pairingComplete, calls, restarted, scan>>
    ELSE /\ config' = [config EXCEPT
                         !.front_address = m_selectedFrontAddress,
                         !.rear_address = m_selectedRearAddress]
         /\ frontAddress' = m_selectedFrontAddress
         /\ rearAddress' = m_selectedRearAddress
         /\ isPaired' = TRUE
         /\ m_state' = COMPLETE
         /\ m_pairingComplete' = TRUE
         /\ calls' = calls \o SaveCalls(m_selectedFrontAddress,
                                        m_selectedRearAddress)
         /\ scan' = RestoredScan
         /\ restarted' = TRUE

\* the log line of savePairingAndReboot
SaveLog ==
    IF MissingAddress(m_selectedFrontAddress, m_selectedRearAddress)
    THEN <<"Error - missing sensor address">>
    ELSE <<"Saving pairing">>

\* mutation: the retry does not record the start time
startOrRetry_keep(state) ==
    /\ m_state' = state
    /\ m_scanStartTime' = m_scanStartTime
    /\ stage' = [at |-> now, by |-> "button", state |-> state]
    /\ last' = Last("handleButtonPress", NoAdv, m_state,
                    <<"Starting/retrying scan">>)
    /\ UNCHANGED <<m_selectedFrontAddress, m_selectedRearAddress,
                   m_lastSensorCount, m_pairingComplete, sysVars, stateVars>>

\* handleButtonPress: the SCANNING_x / TIMEOUT_x branches (start or retry)
startOrRetry(state) ==
    /\ m_state' = state
    /\ m_scanStartTime' = now
    /\ stage' = [at |-> now, by |-> "button", state |-> state]
    /\ last' = Last("handleButtonPress", NoAdv, m_state,
                    <<"Starting/retrying scan">>)
    /\ UNCHANGED <<m_selectedFrontAddress, m_selectedRearAddress,
                   m_lastSensorCount, m_pairingComplete, sysVars, stateVars>>

\* mutation: the rear scan starts without a start time
startRearScan_zero ==
    /\ m_state' = SCANNING_REAR
    /\ m_scanStartTime' = 0
    /\ m_lastSensorCount' = 0
    /\ stage' = [at |-> now, by |-> "confirm", state |-> SCANNING_REAR]

\* PairController::startRearScan()
startRearScan ==
    /\ m_state' = SCANNING_REAR
    /\ m_scanStartTime' = now
    /\ m_lastSensorCount' = 0
    /\ stage' = [at |-> now, by |-> "confirm", state |-> SCANNING_REAR]

\* Application::handleShortPress: m_pairController->handleButtonPress()
handleButtonPress ==
    /\ ~restarted
    /\ mainShown
    /\ ~isPaired
    /\ UNCHANGED auxVars
    /\ IF m_state \in {SCANNING_FRONT, TIMEOUT_FRONT}
       THEN startOrRetry(SCANNING_FRONT)
       ELSE IF m_state \in {SCANNING_REAR, TIMEOUT_REAR}
       THEN startOrRetry(SCANNING_REAR)
       ELSE IF m_state = WAITING_FRONT_CONFIRM
       THEN /\ startRearScan
            /\ last' = Last("handleButtonPress", NoAdv, m_state,
                            <<"Front sensor confirmed, scanning rear">>)
            /\ UNCHANGED <<m_selectedFrontAddress, m_selectedRearAddress,
                           m_pairingComplete, sysVars, stateVars>>
       ELSE IF m_state = WAITING_REAR_CONFIRM
       THEN /\ savePairingAndReboot
            /\ last' = Last("handleButtonPress", NoAdv, m_state,
                            <<"Rear sensor confirmed, saving and rebooting">>
                            \o SaveLog)
            /\ UNCHANGED <<now, mainShown, m_data, m_selectedFrontAddress,
                           m_selectedRearAddress, m_scanStartTime,
                           m_lastSensorCount, stage>>
       ELSE /\ last' = Last("handleButtonPress", NoAdv, m_state, <<>>)
            /\ UNCHANGED <<sysVars, stateVars, pairVars, stage>>

\* the clock moves on
Advance ==
    /\ ~restarted
    /\ now + TimeStep <= MaxTicks * TimeStep
    /\ now' = now + TimeStep
    /\ last' = Last("Advance", NoAdv, m_state, <<>>)
    /\ UNCHANGED <<mainShown, config, calls, restarted, scan, stateVars,
                   pairVars, auxVars, stage>>

----------------------------------------------------------------------------
(* The program: boot of an unpaired device in normal mode *)

Init ==
    /\ now = 0
    /\ mainShown = FALSE
    /\ m_data = <<>>
    /\ frontAddress = NoAddr
    /\ rearAddress = NoAddr
    /\ isPaired = FALSE
    /\ m_state = SCANNING_FRONT
    /\ m_selectedFrontAddress = NoAddr
    /\ m_selectedRearAddress = NoAddr
    /\ m_scanStartTime = 0
    /\ m_lastSensorCount = 0
    /\ m_pairingComplete = FALSE
    /\ config = [front_address |-> NoAddr, rear_address |-> NoAddr]
    /\ calls = <<Call("setWindow", "", <<NORMAL_SCAN_WINDOW>>)>>
    /\ restarted = FALSE
    /\ scan = NormalScan
    /\ buttonState = Released
    /\ m_wifiConfigMode = FALSE
    /\ wifi_config_mode = 0
    /\ m_currentBrightnessIndex = DEFAULT_BRIGHTNESS_INDEX
    /\ invoked = <<>>
    /\ heap = NoHeap
    /\ sweep = NoSweep
    /\ rawData = NoAdv
    /\ parsed = NotParsed
    /\ stage = [at |-> 0, by |-> "none", state |-> SCANNING_FRONT]
    /\ last = Last("boot", NoAdv, SCANNING_FRONT, <<>>)

Next ==
    \/ Advance
    \/ \E adv \in Advertisements : onDiscovered(adv)
    \/ cleanupOldSensors
    \/ handleScreenTransitions
    \/ update
    \/ handleButtonPress

Spec == Init /\ [][Next]_vars

----------------------------------------------------------------------------
(* savePairingAndReboot on arbitrary members of PairController *)

InitSave ==
    /\ now = TimeStep
    /\ mainShown = TRUE
    /\ m_data = <<>>
    /\ frontAddress = NoAddr
    /\ rearAddress = NoAddr
    /\ isPaired = FALSE
    /\ m_state \in PairingState \ {COMPLETE}
    /\ m_selectedFrontAddress \in Addresses \cup {NoAddr}
    /\ m_selectedRearAddress \in Addresses \cup {NoAddr}
    /\ m_scanStartTime \in {0, TimeStep}
    /\ m_lastSensorCount = 0
    /\ m_pairingComplete = FALSE
    /\ config \in {c \in [front_address : Addresses \cup {NoAddr},
                          rear_address : Addresses \cup {NoAddr}] :
                     c.front_address = NoAddr \/ c.rear_address = NoAddr}
    /\ calls = <<Call("setWindow", "", <<PAIRING_SCAN_WINDOW>>)>>
    /\ restarted = FALSE
    /\ scan = PairingScan
    /\ buttonState = Released
    /\ m_wifiConfigMode = FALSE
    /\ wifi_config_mode = 0
    /\ m_currentBrightnessIndex = DEFAULT_BRIGHTNESS_INDEX
    /\ invoked = <<>>
    /\ heap = NoHeap
    /\ sweep = NoSweep
    /\ rawData = NoAdv
    /\ parsed = NotParsed
    /\ stage = [at |-> 0, by |-> "none", state |-> SCANNING_FRONT]
    /\ last = Last("boot", NoAdv, m_state, <<>>)

\* a call of PairController::savePairingAndReboot()
callSavePairingAndReboot ==
    /\ ~restarted
    /\ savePairingAndReboot
    /\ last' = Last("savePairingAndReboot", NoAdv, m_state, SaveLog)
    /\ UNCHANGED <<now, mainShown, m_data, m_selectedFrontAddress,
                   m_selectedRearAddress, m_scanStartTime,
                   m_lastSensorCount, auxVars, stage>>

NextSave == callSavePairingAndReboot

SpecSave == InitSave /\ [][NextSave]_vars

----------------------------------------------------------------------------
(* cleanupOldSensors step by step.  The sweep runs in the lv_timer_task  *)
(* (priority tskIDLE_PRIORITY + 5); onDiscovered runs in the NimBLE host  *)
(* task, which preempts it.  State::m_data has no lock, so a callback    *)
(* can run between any two steps of the sweep.                           *)

\* milliseconds the clock can move while a sweep is under way
MaxSweepTicks == 2
\* removals followed within one sweep (int removedCount has no bound of
\* its own while the callback keeps adding entries behind the iterator)
MaxRemoved == 2

\* m_data.begin(): the key of the first node, NoAddr for end()
begin(data) == IF Len(data) = 0 THEN NoAddr ELSE data[1].address

\* ++it: the key of the node after `it`, NoAddr for end()
successor(data, it) ==
    LET i == CHOOSE k \in 1..Len(data) : data[k].address = it
    IN  IF i = Len(data) THEN NoAddr ELSE data[i + 1].address

\* m_data.erase(it): the map without the node of `it`
erase(data, it) == SelectSeq(data, LAMBDA e : e.address # it)

\* cleanupOldSensors, lines 33-39: read the clock, it = m_data.begin()
sweepBegin ==
    /\ ~restarted
    /\ sweep.pc = "idle"
    /\ sweep' = [pc |-> "while", currentTime |-> now, it |-> begin(m_data),
                 sensor |-> {}, removedCount |-> 0]
    /\ last' = Last("cleanupOldSensors", NoAdv, m_state, <<>>)
    /\ UNCHANGED <<sysVars, stateVars, pairVars, rawData, parsed, ctlVars,
                   stage>>

\* cleanupOldSensors, lines 42-43: it != end(), sensor = it->second.
\* An insertion made since the last step may have rehashed the map; the
\* iterator is the node pointer and stays on its node.
sweepLoad ==
    /\ ~restarted
    /\ sweep.pc = "while"
    /\ sweep.it # NoAddr
    /\ sweep' = [sweep EXCEPT !.pc = "if",
                              !.sensor = {find(m_data, sweep.it)}]
    /\ last' = Last("cleanupOldSensors", NoAdv, m_state, <<>>)
    /\ UNCHANGED <<sysVars, stateVars, pairVars, rawData, parsed, ctlVars,
                   stage>>

\* cleanupOldSensors, lines 46-54: the test on the loaded sensor, then
\* delete sensor and erase(it), or ++it
sweepTest ==
    /\ ~restarted
    /\ sweep.pc = "if"
    /\ sweep.removedCount < MaxRemoved
    /\ LET sensor == CHOOSE r \in sweep.sensor : TRUE
           following == successor(m_data, sweep.it)
       IN  IF IsStale(sweep.currentTime, sensor.timestamp)
           THEN /\ m_data' = erase(m_data, sweep.it)
                /\ sweep' = [sweep EXCEPT
                               !.pc = "while", !.it = following,
                               !.sensor = {},
                               !.removedCount = @ + 1]
           ELSE /\ m_data' = m_data
                /\ sweep' = [sweep EXCEPT
                               !.pc = "while", !.it = following,
                               !.sensor = {}]
    /\ last' = Last("cleanupOldSensors", NoAdv, m_state, <<>>)
    /\ UNCHANGED <<sysVars, frontAddress, rearAddress, isPaired, pairVars,
                   rawData, parsed, ctlVars, stage>>

\* cleanupOldSensors, lines 42 and 58-68: it == end(), the statistics
sweepEnd ==
    /\ ~restarted
    /\ sweep.pc = "while"
    /\ sweep.it = NoAddr
    /\ sweep' = NoSweep
    /\ last' = Last("cleanupOldSensors", NoAdv, m_state,
                    IF sweep.removedCount > 0 THEN <<"Cleanup complete">>
                    ELSE <<>>)
    /\ UNCHANGED <<sysVars, stateVars, pairVars, rawData, parsed, ctlVars,
                   stage>>

\* the millisecond clock moves on
Tick ==
    /\ ~restarted
    /\ now < threshold + 1 + MaxSweepTicks
    /\ now' = now + 1
    /\ last' = Last("Tick", NoAdv, m_state, <<>>)
    /\ UNCHANGED <<mainShown, config, calls, restarted, scan, stateVars,
                   pairVars, auxVars, stage>>

\* the reading an address registered at an earlier time
Registered(address, time) ==
    [address |-> address,
     sensor |-> IF isTC_TPMS(address)
                THEN CHOOSE r \in TPMSUtil_Type2(address, PayloadB1, time) :
                       TRUE
                ELSE TPMSUtil(address, PayloadA1, time)]

\* the registries left by earlier advertisements, received at 0 or 1 ms
OldRegistries ==
    {<<>>}
    \cup { <<Registered(a, t)>> : a \in Addresses, t \in {0, 1} }
    \cup { <<Registered(p[1], p[3]), Registered(p[2], p[4])>> :
             p \in { q \in Addresses \X Addresses \X {0, 1} \X {0, 1} :
                       q[1] # q[2] } }

\* a paired device in monitoring mode, just over 7 minutes after boot
InitSweep ==
    /\ now = threshold + 1
    /\ mainShown = TRUE
    /\ m_data \in OldRegistries
    /\ frontAddress = AddrOther
    /\ rearAddress = AddrTC
    /\ isPaired = TRUE
    /\ m_state = SCANNING_FRONT
    /\ m_selectedFrontAddress = NoAddr
    /\ m_selectedRearAddress = NoAddr
    /\ m_scanStartTime = 0
    /\ m_lastSensorCount = 0
    /\ m_pairingComplete = FALSE
    /\ config = [front_address |-> AddrOther, rear_address |-> AddrTC]
    /\ calls = <<Call("setWindow", "", <<NORMAL_SCAN_WINDOW>>)>>
    /\ restarted = FALSE
    /\ scan = NormalScan
    /\ buttonState = Released
    /\ m_wifiConfigMode = FALSE
    /\ wifi_config_mode = 0
    /\ m_currentBrightnessIndex = DEFAULT_BRIGHTNESS_INDEX
    /\ invoked = <<>>
    /\ heap = NoHeap
    /\ sweep = NoSweep
    /\ rawData = NoAdv
    /\ parsed = NotParsed
    /\ stage = [at |-> 0, by |-> "none", state |-> SCANNING_FRONT]
    /\ last = Last("boot", NoAdv, SCANNING_FRONT, <<>>)

NextSweep ==
    \/ Tick
    \/ \E adv \in Advertisements : onDiscovered(adv)
    \/ sweepBegin
    \/ sweepLoad
    \/ sweepTest
    \/ sweepEnd

SpecSweep == InitSweep /\ [][NextSweep]_vars

----------------------------------------------------------------------------
(* The periodic sweep under the scheduling of lvglTimerTask, which calls *)
(* cleanupOldSensors every 20 ms for as long as the device runs, in      *)
(* pairing mode and in monitoring mode                                   *)

\* boot of a paired device: Application::init() found both addresses in
\* the configuration
InitMonitoring ==
    /\ now = 0
    /\ mainShown = FALSE
    /\ m_data = <<>>
    /\ frontAddress = AddrOther
    /\ rearAddress = AddrTC
    /\ isPaired = TRUE
    /\ m_state = SCANNING_FRONT
    /\ m_selectedFrontAddress = NoAddr
    /\ m_selectedRearAddress = NoAddr
    /\ m_scanStartTime = 0
    /\ m_lastSensorCount = 0
    /\ m_pairingComplete = FALSE
    /\ config = [front_address |-> AddrOther, rear_address |-> AddrTC]
    /\ calls = <<Call("setWindow", "", <<NORMAL_SCAN_WINDOW>>)>>
    /\ restarted = FALSE
    /\ scan = NormalScan
    /\ buttonState = Released
    /\ m_wifiConfigMode = FALSE
    /\ wifi_config_mode = 0
    /\ m_currentBrightnessIndex = DEFAULT_BRIGHTNESS_INDEX
    /\ invoked = <<>>
    /\ heap = NoHeap
    /\ sweep = NoSweep
    /\ rawData = NoAdv
    /\ parsed = NotParsed
    /\ stage = [at |-> 0, by |-> "none", state |-> SCANNING_FRONT]
    /\ last = Last("boot", NoAdv, SCANNING_FRONT, <<>>)

InitLive == Init \/ InitMonitoring

\* one sensor of each protocol variant
LiveAdvertisements ==
    { [address |-> AddrOther, data |-> PayloadA1, uuid |-> 0],
      [address |-> AddrTC, data |-> PayloadB1, uuid |-> 0] }

NextLive ==
    \/ Advance
    \/ \E adv \in LiveAdvertisements : onDiscovered(adv)
    \/ cleanupOldSensors
    \/ handleScreenTransitions
    \/ update
    \/ handleButtonPress

SpecLive == InitLive /\ [][NextLive]_vars /\ WF_vars(cleanupOldSensors)

----------------------------------------------------------------------------
(* The ingestion pipeline on its own, with every kind of advertisement *)

\* clock steps explored by the ingestion pipeline
MaxIngestTicks == 1

AdvanceIngest ==
    /\ now < MaxIngestTicks * TimeStep
    /\ Advance

NextIngest ==
    \/ AdvanceIngest
    \/ \E adv \in IngestAdvertisements : onDiscovered(adv)
    \/ cleanupOldSensors

SpecIngest == InitLive /\ [][NextIngest]_vars

----------------------------------------------------------------------------
(* The decoders on their own: TPMSUtil::parse and TPMSUtil_Type2::parse *)
(* applied to one buffer                                                 *)

\* buffers of 19 bytes: every combination of right and wrong header,
\* magic and sensor number bytes, followed by the rest of PayloadA1
DecodeBases ==
    { <<h[1], h[2], h[3], h[4], h[5]>> \o SubSeq(PayloadA1, 6, 18) \o <<0>> :
        h \in {0, 1} \X {1, 0} \X {127, 128, 143, 144, 255}
               \X {234, 235} \X {202, 0} }

\* the lengths the buffers are cut to
DecodeLengths == {0, 4, 11, 17, 18, 19}

\* Type 2 payloads with every battery byte and some pressure bytes
Type2Buffers ==
    { <<0, v, 23, p[1], p[2], 0, 0, 0, 0, 0, 0>> :
        v \in 0..255, p \in {<<1, 179>>, <<179, 1>>} }

\* valid Type 1 payloads with small, large and negative pressure values
PressureBuffers ==
    { SubSeq(PayloadA1, 1, 8) \o p \o SubSeq(PayloadA1, 13, 18) :
        p \in { <<35, 6, 0, 0>>, <<0, 0, 0, 0>>, <<255, 255, 255, 255>>,
                <<1, 2, 3, 4>>, <<0, 0, 0, 8>>, <<0, 0, 0, 248>> } }

DecodeBuffers ==
    { SubSeq(b, 1, n) : b \in DecodeBases, n \in DecodeLengths }
    \cup Type2Buffers \cup PressureBuffers

\* "37:39:00:0a:0b:0c": manufacturer prefix, wheel byte 0
AddrWheel0 == <<55, 57, 0, 10, 11, 12>>

\* a paired device at boot and the buffer handed to the decoder
InitDecode ==
    /\ rawData \in [address : Addresses \cup {AddrWheel0},
                     data : DecodeBuffers, uuid : {0}]
    /\ now = 0
    /\ mainShown = FALSE
    /\ m_data = <<>>
    /\ frontAddress = AddrOther
    /\ rearAddress = AddrTC
    /\ isPaired = TRUE
    /\ m_state = SCANNING_FRONT
    /\ m_selectedFrontAddress = NoAddr
    /\ m_selectedRearAddress = NoAddr
    /\ m_scanStartTime = 0
    /\ m_lastSensorCount = 0
    /\ m_pairingComplete = FALSE
    /\ config = [front_address |-> AddrOther, rear_address |-> AddrTC]
    /\ calls = <<Call("setWindow", "", <<NORMAL_SCAN_WINDOW>>)>>
    /\ restarted = FALSE
    /\ scan = NormalScan
    /\ buttonState = Released
    /\ m_wifiConfigMode = FALSE
    /\ wifi_config_mode = 0
    /\ m_currentBrightnessIndex = DEFAULT_BRIGHTNESS_INDEX
    /\ invoked = <<>>
    /\ heap = NoHeap
    /\ sweep = NoSweep
    /\ parsed = NotParsed
    /\ stage = [at |-> 0, by |-> "none", state |-> SCANNING_FRONT]
    /\ last = Last("boot", NoAdv, SCANNING_FRONT, <<>>)

\* TPMSUtil::parse(manufacturerData, address): a new TPMSUtil, or nullptr
\* (no sensor) when isTPMSSensor rejects the buffer
parse ==
    /\ parsed.by = "none"
    /\ parsed' =
         [by |-> "TPMSUtil::parse",
          sensors |-> IF isTPMSSensor(rawData.data)
                      THEN {TPMSUtil(rawData.address, rawData.data, now)}
                      ELSE {}]
    /\ last' = Last("parse", rawData, m_state, <<>>)
    /\ UNCHANGED <<sysVars, stateVars, pairVars, sweep, rawData, ctlVars,
                   stage>>

\* TPMSUtil_Type2::parse(data, length, address): a new TPMSUtil_Type2, or
\* nullptr when isTPMSSensor_Type2 rejects the buffer
parse_Type2 ==
    /\ parsed.by = "none"
    /\ IF isTPMSSensor_Type2(rawData.data)
       THEN \E r \in TPMSUtil_Type2(rawData.address, rawData.data, now) :
              parsed' = [by |-> "TPMSUtil_Type2::parse", sensors |-> {r}]
       ELSE parsed' = [by |-> "TPMSUtil_Type2::parse", sensors |-> {}]
    /\ last' = Last("parse_Type2", rawData, m_state, <<>>)
    /\ UNCHANGED <<sysVars, stateVars, pairVars, sweep, rawData, ctlVars,
                   stage>>

NextDecode == parse \/ parse_Type2

SpecDecode == InitDecode /\ [][NextDecode]_vars

----------------------------------------------------------------------------
(* The control loop: one iteration of controlLogicTask as a whole, the   *)
(* button, the modes, esp_restart() and the boot that follows it         *)

\* milliseconds between two iterations that are followed; the loop itself
\* sleeps CONTROL_LOOP_DELAY_MS = 100 between iterations, and the
\* iterations left out sample the button as the one before them did
ControlStep == 1500
\* iterations followed after a boot
MaxControlTicks == 14

\* the state one loop iteration works on
ControlState ==
    [mainShown |-> mainShown, m_data |-> m_data, isPaired |-> isPaired,
     frontAddress |-> frontAddress, rearAddress |-> rearAddress,
     p |-> Members, m_pairingComplete |-> m_pairingComplete,
     config |-> config, wifi_config_mode |-> wifi_config_mode,
     calls |-> calls, restarted |-> FALSE, scan |-> scan, stage |-> stage,
     buttonState |-> buttonState,
     m_currentBrightnessIndex |-> m_currentBrightnessIndex,
     invoked |-> <<>>]

\* the function `name` is entered
Invoke(s, name) == [s EXCEPT !.invoked = Append(@, name)]

\* mutation: init() leaves the scan parameters as they are
initOn_default(s, t) ==
    [Invoke(s, "init") EXCEPT
       !.p = [@ EXCEPT !.state = SCANNING_FRONT, !.front = NoAddr,
                       !.rear = NoAddr, !.scanStartTime = 0],
       !.m_pairingComplete = FALSE,
       !.stage = [at |-> t, by |-> "init", state |-> SCANNING_FRONT]]

\* PairController::init() on the state s at time t
initOn(s, t) ==
    [Invoke(s, "init") EXCEPT
       !.p = [@ EXCEPT !.state = SCANNING_FRONT, !.front = NoAddr,
                       !.rear = NoAddr, !.scanStartTime = 0],
       !.m_pairingComplete = FALSE,
       !.calls = Append(@, Call("setWindow", "", <<PAIRING_SCAN_WINDOW>>)),
       !.scan = PairingScan,
       !.stage = [at |-> t, by |-> "init", state |-> SCANNING_FRONT]]

\* Application::handleScreenTransitions(elapsed, splashShown, mainShown):
\* step 2, the main screen or the pair screen with PairController::init()
handleScreenTransitionsOn(s, elapsed) ==
    IF elapsed >= MAIN_SCREEN_DELAY_MS /\ ~s.mainShown
    THEN LET shown == [Invoke(s, "handleScreenTransitions") EXCEPT
                         !.mainShown = TRUE]
         IN  IF s.isPaired THEN shown ELSE initOn(shown, elapsed)
    ELSE s

\* mutation: the sensor update() looks at is taken out of the map
updateOn_consuming(s, currentTime) ==
    [Invoke(s, "update") EXCEPT
       !.p = updateMembers(s.p, s.m_data, currentTime),
       !.m_data = IF Len(@) > 0 THEN Tail(@) ELSE @]

\* m_pairController->update(currentTime)
updateOn(s, currentTime) ==
    [Invoke(s, "update") EXCEPT
       !.p = updateMembers(s.p, s.m_data, currentTime)]

\* PairController::savePairingAndReboot() on the state s
savePairingAndRebootOn(s) ==
    IF MissingAddress(s.p.front, s.p.rear)
    THEN [s EXCEPT !.p.log = @ \o <<"Error - missing sensor address">>]
    ELSE [s EXCEPT
            !.config = [@ EXCEPT !.front_address = s.p.front,
                                 !.rear_address = s.p.rear],
            !.frontAddress = s.p.front,
            !.rearAddress = s.p.rear,
            !.isPaired = TRUE,
            !.p = [@ EXCEPT !.state = COMPLETE,
                            !.log = @ \o <<"Saving pairing">>],
            !.m_pairingComplete = TRUE,
            !.calls = @ \o SaveCalls(s.p.front, s.p.rear),
            !.scan = RestoredScan,
            !.restarted = TRUE]

\* mutation: a press in the rear stage starts the front scan again
handleButtonPressOn_restart(s, t) ==
    LET i == Invoke(s, "handleButtonPress")
        retry(state) ==
            [i EXCEPT
               !.p = [@ EXCEPT !.state = state, !.scanStartTime = t,
                               !.log = @ \o <<"Starting/retrying scan">>],
               !.stage = [at |-> t, by |-> "button", state |-> state]]
    IN  IF s.p.state \in {SCANNING_FRONT, TIMEOUT_FRONT}
        THEN retry(SCANNING_FRONT)
        ELSE IF s.p.state \in {SCANNING_REAR, TIMEOUT_REAR}
        THEN retry(SCANNING_FRONT)
        ELSE IF s.p.state = WAITING_FRONT_CONFIRM
        THEN [i EXCEPT
                !.p = [@ EXCEPT
                         !.state = SCANNING_REAR, !.scanStartTime = t,
                         !.lastSensorCount = 0,
                         !.log = @ \o <<"Front sensor confirmed, scanning rear">>],
                !.stage = [at |-> t, by |-> "confirm",
                           state |-> SCANNING_REAR]]
        ELSE IF s.p.state = WAITING_REAR_CONFIRM
        THEN savePairingAndRebootOn(
               [i EXCEPT !.p.log =
                  @ \o <<"Rear sensor confirmed, saving and rebooting">>])
        ELSE i

\* PairController::handleButtonPress() on the state s at time t
handleButtonPressOn(s, t) ==
    LET i == Invoke(s, "handleButtonPress")
        retry(state) ==
            [i EXCEPT
               !.p = [@ EXCEPT !.state = state, !.scanStartTime = t,
                               !.log = @ \o <<"Starting/retrying scan">>],
               !.stage = [at |-> t, by |-> "button", state |-> state]]
    IN  IF s.p.state \in {SCANNING_FRONT, TIMEOUT_FRONT}
        THEN retry(SCANNING_FRONT)
        ELSE IF s.p.state \in {SCANNING_REAR, TIMEOUT_REAR}
        THEN retry(SCANNING_REAR)
        ELSE IF s.p.state = WAITING_FRONT_CONFIRM
        THEN [i EXCEPT
                !.p = [@ EXCEPT
                         !.state = SCANNING_REAR, !.scanStartTime = t,
                         !.lastSensorCount = 0,
                         !.log = @ \o <<"Front sensor confirmed, scanning rear">>],
                !.stage = [at |-> t, by |-> "confirm",
                           state |-> SCANNING_REAR]]
        ELSE IF s.p.state = WAITING_REAR_CONFIRM
        THEN savePairingAndRebootOn(
               [i EXCEPT !.p.log =
                  @ \o <<"Rear sensor confirmed, saving and rebooting">>])
        ELSE i

\* mutation: only the front address is cleared
handleLongPressOn_front(s) ==
    [Invoke(s, "handleLongPress") EXCEPT
       !.config = [@ EXCEPT !.front_address = NoAddr],
       !.calls = @ \o << Call("setString", "front_address", NoAddr),
                         Call("esp_restart", "", <<>>) >>,
       !.restarted = TRUE]

\* Application::handleLongPress(): both addresses are set to "" in the
\* configuration, then esp_restart()
handleLongPressOn(s) ==
    [Invoke(s, "handleLongPress") EXCEPT
       !.config = [@ EXCEPT !.front_address = NoAddr,
                            !.rear_address = NoAddr],
       !.calls = @ \o << Call("setString", "front_address", NoAddr),
                         Call("setString", "rear_address", NoAddr),
                         Call("esp_restart", "", <<>>) >>,
       !.restarted = TRUE]

\* Application::handleVeryLongPress(): enterWiFiConfigMode()
handleVeryLongPressOn(s) ==
    [Invoke(s, "handleVeryLongPress") EXCEPT
       !.wifi_config_mode = 1,
       !.calls = @ \o << Call("setInt", "wifi_config_mode", <<1>>),
                         Call("esp_restart", "", <<>>) >>,
       !.restarted = TRUE]

\* Application::exitWiFiConfigMode()
exitWiFiConfigModeOn(s) ==
    [Invoke(s, "exitWiFiConfigMode") EXCEPT
       !.wifi_config_mode = 0,
       !.calls = @ \o << Call("setInt", "wifi_config_mode", <<0>>),
                         Call("esp_restart", "", <<>>) >>,
       !.restarted = TRUE]

\* Application::cycleBrightness(): the next of the 5 levels, saved at once
cycleBrightnessOn(s) ==
    [Invoke(s, "cycleBrightness") EXCEPT
       !.m_currentBrightnessIndex = (@ + 1) % 5]

\* Application::handleShortPress()
handleShortPressOn(s, t) ==
    LET i == Invoke(s, "handleShortPress")
    IN  IF ~s.isPaired THEN handleButtonPressOn(i, t)
        ELSE cycleBrightnessOn(i)

\* handleButtonInput: pressDuration = currentTime - state.pressStartTime
\* (both are read from the same clock after the same boot)
pressDuration(s, currentTime) == currentTime - s.buttonState.pressStartTime

\* Application::handleButtonInput(state) with the level read from GPIO9
\* (TRUE: released) at currentTime.  esp_restart() does not return; what
\* the code would do after it is of no consequence.
handleButtonInputOn(s, currentButtonState, currentTime) ==
    LET i == Invoke(s, "handleButtonInput")
        b == s.buttonState
        d == pressDuration(s, currentTime)
        handled(r) == [r EXCEPT !.buttonState.pressHandled = TRUE]
        acted ==
          IF b.lastState /\ ~currentButtonState
          THEN [i EXCEPT !.buttonState.pressStartTime = currentTime,
                         !.buttonState.pressHandled = FALSE]
          ELSE IF ~currentButtonState /\ ~b.pressHandled
          THEN IF m_wifiConfigMode
               THEN IF d >= LONG_PRESS_DURATION_MS
                    THEN handled(exitWiFiConfigModeOn(i))
                    ELSE i
               ELSE IF d >= VERY_LONG_PRESS_DURATION_MS
                    THEN handled(handleVeryLongPressOn(i))
                    ELSE i
          ELSE IF ~b.lastState /\ currentButtonState
          THEN LET r == IF b.pressHandled THEN i
                        ELSE IF d >= LONG_PRESS_DURATION_MS
                                /\ d < VERY_LONG_PRESS_DURATION_MS
                        THEN handleLongPressOn(i)
                        ELSE IF d < LONG_PRESS_DURATION_MS
                        THEN handleShortPressOn(i, currentTime)
                        ELSE i
               IN  [r EXCEPT !.buttonState.pressHandled = FALSE]
          ELSE i
    IN  [acted EXCEPT !.buttonState.lastState = currentButtonState]

\* mutation: the refresh is requested when the sensors are not paired
updateUIIfPairedOn_unpaired(s) ==
    LET i == Invoke(s, "updateUIIfPaired")
    IN  IF ~s.isPaired THEN Invoke(i, "updateLabelsCallback") ELSE i

\* Application::updateUIIfPaired()
updateUIIfPairedOn(s) ==
    LET i == Invoke(s, "updateUIIfPaired")
    IN  IF s.isPaired THEN Invoke(i, "updateLabelsCallback") ELSE i

\* the body of the for (;;) of controlLogicTask
Iteration(s, currentButtonState, currentTime) ==
    IF m_wifiConfigMode
    THEN handleButtonInputOn(s, currentButtonState, currentTime)
    ELSE
      LET s1 == handleScreenTransitionsOn(s, currentTime)
      IN  IF ~s1.mainShown THEN s1
          ELSE IF ~s1.isPaired
          THEN handleButtonInputOn(updateOn(s1, currentTime),
                                   currentButtonState, currentTime)
          ELSE LET s2 == handleButtonInputOn(s1, currentButtonState,
                                             currentTime)
               IN  IF s2.restarted THEN s2 ELSE updateUIIfPairedOn(s2)

\* Application::controlLogicTask: one iteration of the loop, with the
\* level of the button it reads
controlLogicTask(currentButtonState) ==
    /\ ~restarted
    /\ now + ControlStep <= MaxControlTicks * ControlStep
    /\ LET currentTime == now + ControlStep
           s == Iteration(ControlState, currentButtonState, currentTime)
       IN  /\ now' = currentTime
           /\ mainShown' = s.mainShown
           /\ m_data' = s.m_data
           /\ isPaired' = s.isPaired
           /\ frontAddress' = s.frontAddress
           /\ rearAddress' = s.rearAddress
           /\ m_state' = s.p.state
           /\ m_selectedFrontAddress' = s.p.front
           /\ m_selectedRearAddress' = s.p.rear
           /\ m_scanStartTime' = s.p.scanStartTime
           /\ m_lastSensorCount' = s.p.lastSensorCount
           /\ m_pairingComplete' = s.m_pairingComplete
           /\ config' = s.config
           /\ wifi_config_mode' = s.wifi_config_mode
           /\ calls' = s.calls
           /\ restarted' = s.restarted
           /\ scan' = s.scan
           /\ stage' = s.stage
           /\ buttonState' = s.buttonState
           /\ m_currentBrightnessIndex' = s.m_currentBrightnessIndex
           /\ invoked' = s.invoked
           /\ last' = Last("controlLogicTask", NoAdv, m_state, s.p.log)
    /\ UNCHANGED <<m_wifiConfigMode, heap, sweep, rawData, parsed>>

\* mutation: the callback does not start the scan again
onScanEnd_idle ==
    /\ ~restarted
    /\ scan.running
    /\ scan.duration > 0
    /\ scan' = [scan EXCEPT !.running = FALSE]
    /\ last' = Last("onScanEnd", NoAdv, m_state, <<>>)
    /\ UNCHANGED <<now, mainShown, config, calls, restarted, stateVars,
                   pairVars, auxVars, stage>>

\* TPMSScanCallbacks::onScanEnd(results, reason): the timed scan has run
\* out and the callback starts it again
onScanEnd ==
    /\ ~restarted
    /\ scan.running
    /\ scan.duration > 0
    /\ scan' = [scan EXCEPT !.running = TRUE, !.duration = SCAN_TIME_MS]
    /\ last' = Last("onScanEnd", NoAdv, m_state, <<>>)
    /\ UNCHANGED <<now, mainShown, config, calls, restarted, stateVars,
                   pairVars, auxVars, stage>>

\* mutation: paired when both addresses are empty
BothConfigured_empty(front, rear) == front = NoAddr /\ rear = NoAddr

\* loadConfiguration: !getFrontAddress().empty() &&
\* !getRearAddress().empty()
BothConfigured(front, rear) == front # NoAddr /\ rear # NoAddr

\* esp_restart() and the Application::init() that follows: the clock and
\* the memory start afresh, the configuration is read back
boot ==
    /\ restarted
    /\ restarted' = FALSE
    /\ now' = 0
    /\ mainShown' = FALSE
    /\ m_data' = <<>>
    /\ frontAddress' = config.front_address
    /\ rearAddress' = config.rear_address
    /\ isPaired' = BothConfigured(config.front_address, config.rear_address)
    /\ m_state' = SCANNING_FRONT
    /\ m_selectedFrontAddress' = NoAddr
    /\ m_selectedRearAddress' = NoAddr
    /\ m_scanStartTime' = 0
    /\ m_lastSensorCount' = 0
    /\ m_pairingComplete' = FALSE
    /\ m_wifiConfigMode' = (wifi_config_mode = 1)
    /\ IF wifi_config_mode = 1
       THEN calls' = <<>> /\ scan' = NoScan
       ELSE /\ calls' = <<Call("setWindow", "", <<NORMAL_SCAN_WINDOW>>)>>
            /\ scan' = NormalScan
    /\ buttonState' = Released
    /\ invoked' = <<>>
    /\ heap' = NoHeap
    /\ sweep' = NoSweep
    /\ stage' = [at |-> 0, by |-> "none", state |-> SCANNING_FRONT]
    /\ last' = Last("boot", NoAdv, SCANNING_FRONT, <<>>)
    /\ UNCHANGED <<config, wifi_config_mode, m_currentBrightnessIndex,
                   rawData, parsed>>

\* the first advertisement of a sensor, heard while the countdown of a
\* pairing scan runs (the scan does not run in Wi-Fi configuration mode)
firstDiscovered(adv) ==
    /\ ~m_wifiConfigMode
    /\ mainShown
    /\ ~isPaired
    /\ CountdownRuns(m_state, m_scanStartTime)
    /\ ~contains(m_data, adv.address)
    /\ onDiscovered(adv)

NextControl ==
    \/ \E currentButtonState \in BOOLEAN :
         controlLogicTask(currentButtonState)
    \/ \E adv \in LiveAdvertisements : firstDiscovered(adv)
    \/ onScanEnd
    \/ boot

SpecControl == InitLive /\ [][NextControl]_vars

\* ------------------------------------------------------------------
\* The pairing workflow with two Type 1 sensors that keep advertising
\* and a user who confirms and retries
\* ------------------------------------------------------------------

\* the states in which the user presses the button
AwaitingPress ==
    {WAITING_FRONT_CONFIRM, WAITING_REAR_CONFIRM, TIMEOUT_FRONT,
     TIMEOUT_REAR}

\* the press that confirms a candidate or retries after a timeout
confirmOrRetry ==
    /\ m_state \in AwaitingPress
    /\ handleButtonPress

\* the front sensor is heard
hearFront ==
    /\ scan.running
    /\ onDiscovered([address |-> AddrOther, data |-> PayloadA1, uuid |-> 0])

\* the rear sensor is heard
hearRear ==
    /\ scan.running
    /\ onDiscovered([address |-> AddrTC, data |-> PayloadA4, uuid |-> 0])

\* bound: the steps of the clock while the pairing is followed
MaxPairingTicks == 3

\* the clock moves on
AdvancePairing ==
    /\ now + TimeStep <= MaxPairingTicks * TimeStep
    /\ Advance

NextPairing ==
    \/ AdvancePairing
    \/ hearFront
    \/ hearRear
    \/ cleanupOldSensors
    \/ handleScreenTransitions
    \/ update
    \/ handleButtonPress

\* the control loop runs every 100 ms, the sweep every 20 ms, each sensor
\* is heard again and again, and the user presses when asked to
SpecPairing ==
    /\ Init
    /\ [][NextPairing]_vars
    /\ WF_vars(AdvancePairing)
    /\ WF_vars(handleScreenTransitions)
    /\ WF_vars(update)
    /\ WF_vars(cleanupOldSensors)
    /\ WF_vars(confirmOrRetry)
    /\ WF_vars(hearFront)
    /\ WF_vars(hearRear)

\* ------------------------------------------------------------------
\* The TPMSUtil objects behind the map: the radio callback, the sweep
\* statement by statement, and the UI refresh
\* ------------------------------------------------------------------

\* bound: the objects made with new in one run
MaxObjects == 4

\* the variables the three contexts below leave alone
objectFrame ==
    <<sysVars, frontAddress, rearAddress, isPaired, pairVars, rawData,
      parsed, buttonState, m_wifiConfigMode, wifi_config_mode,
      m_currentBrightnessIndex, invoked, stage>>

\* getData()[address], the pointer, for a key the map holds
pointer(h, address) ==
    (CHOOSE e \in h.at : e.address = address).object

\* the objects the map points to
Referenced(h) == { e.object : e \in h.at }

\* an access through the given pointers; reading a deleted object is
\* recorded
Read(by, objects, h) ==
    [by |-> by, objects |-> objects, freed |-> objects \cap h.deleted # {}]

\* onDiscovered with the objects: parse() makes a new object; for a new
\* key the pointer is stored; for a known key existingSensor is read for
\* the change detection, then the pointer in the map is overwritten and
\* the old object is left as it is.  Reading a deleted existingSensor
\* gives any values, so either outcome of the comparison.
onDiscoveredObject(adv) ==
    /\ ~restarted
    /\ heap.allocated < MaxObjects
    /\ Parsed(adv, now) # {}
    /\ \E sensor \in Parsed(adv, now) :
         \E r \in Upsert(m_data, adv.address, sensor) :
           LET object == heap.allocated + 1
               entry == [address |-> adv.address, object |-> object]
           IN  /\ m_data' = r.data
               /\ IF r.isNewSensor
                  THEN /\ heap' = [heap EXCEPT !.allocated = object,
                                               !.at = @ \cup {entry}]
                       /\ last' = Last("onDiscovered", adv, m_state,
                                       DiscoveryLog(r))
                  ELSE LET existingSensor == pointer(heap, adv.address)
                       IN  /\ heap' =
                                [heap EXCEPT
                                   !.allocated = object,
                                   !.at = { e \in @ :
                                              e.address # adv.address }
                                          \cup {entry},
                                   !.read = Read("onDiscovered",
                                                 {existingSensor}, heap)]
                           /\ \E dataChanged \in
                                   IF existingSensor \in heap.deleted
                                   THEN BOOLEAN
                                   ELSE {r.dataChanged} :
                                last' = Last("onDiscovered", adv, m_state,
                                             DiscoveryLog(
                                               [r EXCEPT !.dataChanged =
                                                           dataChanged]))
    /\ sweep' = sweep
    /\ UNCHANGED objectFrame

\* cleanupOldSensors, line 38: the sweep starts when the callbacks of
\* lv_timer_handler have returned
cleanupBegin ==
    /\ heap.ui = <<>>
    /\ sweepBegin

\* cleanupOldSensors, lines 42-43: it != end(), sensor = it->second
cleanupLoad ==
    /\ ~restarted
    /\ sweep.pc = "while"
    /\ sweep.it # NoAddr
    /\ sweep' = [sweep EXCEPT !.pc = "if",
                              !.sensor = {find(m_data, sweep.it)}]
    /\ heap' = [heap EXCEPT !.sensor = pointer(heap, sweep.it)]
    /\ last' = Last("cleanupOldSensors", NoAdv, m_state, <<>>)
    /\ m_data' = m_data
    /\ UNCHANGED objectFrame

\* cleanupOldSensors, line 46: sensor->getTimestamp() is read and
\* compared; a fresh sensor is skipped with ++it
cleanupTest ==
    /\ ~restarted
    /\ sweep.pc = "if"
    /\ LET sensor == CHOOSE r \in sweep.sensor : TRUE
       IN  IF IsStale(sweep.currentTime, sensor.timestamp)
           THEN sweep' = [sweep EXCEPT !.pc = "delete"]
           ELSE sweep' = [sweep EXCEPT
                            !.pc = "while",
                            !.it = successor(m_data, sweep.it),
                            !.sensor = {}]
    /\ heap' = [heap EXCEPT
                  !.read = Read("cleanupOldSensors", {heap.sensor}, heap),
                  !.sensor = IF sweep'.pc = "delete" THEN @ ELSE 0]
    /\ last' = Last("cleanupOldSensors", NoAdv, m_state, <<>>)
    /\ m_data' = m_data
    /\ UNCHANGED objectFrame

\* cleanupOldSensors, line 49: delete sensor
cleanupDelete ==
    /\ ~restarted
    /\ sweep.pc = "delete"
    /\ sweep' = [sweep EXCEPT !.pc = "erase"]
    /\ heap' = [heap EXCEPT !.deleted = @ \cup {heap.sensor}]
    /\ last' = Last("cleanupOldSensors", NoAdv, m_state, <<>>)
    /\ m_data' = m_data
    /\ UNCHANGED objectFrame

\* cleanupOldSensors, lines 50-51: it = m_data.erase(it), removedCount++
cleanupErase ==
    /\ ~restarted
    /\ sweep.pc = "erase"
    /\ m_data' = erase(m_data, sweep.it)
    /\ sweep' = [sweep EXCEPT !.pc = "while",
                              !.it = successor(m_data, sweep.it),
                              !.sensor = {},
                              !.removedCount = @ + 1]
    /\ heap' = [heap EXCEPT !.at = { e \in @ : e.address # sweep.it },
                            !.sensor = 0]
    /\ last' = Last("cleanupOldSensors", NoAdv, m_state, <<>>)
    /\ UNCHANGED objectFrame

\* the pointer find() gives for an address, nullptr for a missing key
Found(h, data, address) ==
    IF contains(data, address) THEN pointer(h, address) ELSE 0

\* updateLabelsCallback, lines 544-557: the two lookups.  The callback
\* runs inside lv_timer_handler, in the task of the sweep, so not while
\* the sweep runs.
updateLabelsCallback ==
    /\ ~restarted
    /\ isPaired
    /\ sweep.pc = "idle"
    /\ heap.ui = <<>>
    /\ heap' = [heap EXCEPT !.ui = <<Found(heap, m_data, frontAddress),
                                     Found(heap, m_data, rearAddress)>>]
    /\ last' = Last("updateLabelsCallback", NoAdv, m_state, <<>>)
    /\ m_data' = m_data
    /\ sweep' = sweep
    /\ UNCHANGED objectFrame

\* updateLabelsCallback, lines 560-564: updateSensorUI reads the sensors
\* that were found
updateSensorUI ==
    /\ ~restarted
    /\ heap.ui # <<>>
    /\ heap' = [heap EXCEPT
                  !.ui = <<>>,
                  !.read = Read("updateSensorUI",
                                {heap.ui[1], heap.ui[2]} \ {0}, heap)]
    /\ last' = Last("updateSensorUI", NoAdv, m_state, <<>>)
    /\ m_data' = m_data
    /\ sweep' = sweep
    /\ UNCHANGED objectFrame

\* the objects of a registry left by earlier advertisements
ObjectsOf(data) ==
    [allocated |-> Len(data),
     at |-> { [address |-> data[i].address, object |-> i] :
                i \in 1..Len(data) },
     deleted |-> {}, sensor |-> 0, ui |-> <<>>,
     read |-> [by |-> "none", objects |-> {}, freed |-> FALSE]]

\* a paired device in monitoring mode, just over 7 minutes after boot
InitObjects ==
    /\ now = threshold + 1
    /\ mainShown = TRUE
    /\ m_data \in OldRegistries
    /\ heap = ObjectsOf(m_data)
    /\ frontAddress = AddrOther
    /\ rearAddress = AddrTC
    /\ isPaired = TRUE
    /\ m_state = SCANNING_FRONT
    /\ m_selectedFrontAddress = NoAddr
    /\ m_selectedRearAddress = NoAddr
    /\ m_scanStartTime = 0
    /\ m_lastSensorCount = 0
    /\ m_pairingComplete = FALSE
    /\ config = [front_address |-> AddrOther, rear_address |-> AddrTC]
    /\ calls = <<Call("setWindow", "", <<NORMAL_SCAN_WINDOW>>)>>
    /\ restarted = FALSE
    /\ scan = NormalScan
    /\ buttonState = Released
    /\ m_wifiConfigMode = FALSE
    /\ wifi_config_mode = 0
    /\ m_currentBrightnessIndex = DEFAULT_BRIGHTNESS_INDEX
    /\ invoked = <<>>
    /\ sweep = NoSweep
    /\ rawData = NoAdv
    /\ parsed = NotParsed
    /\ stage = [at |-> 0, by |-> "none", state |-> SCANNING_FRONT]
    /\ last = Last("boot", NoAdv, SCANNING_FRONT, <<>>)

\* one pass of lvglTimerTask after lv_timer_handler: the whole sweep
cleanupStep ==
    \/ cleanupBegin
    \/ cleanupLoad
    \/ cleanupTest
    \/ cleanupDelete
    \/ cleanupErase
    \/ sweepEnd

NextObjects ==
    \/ \E adv \in LiveAdvertisements : onDiscoveredObject(adv)
    \/ cleanupBegin
    \/ cleanupLoad
    \/ cleanupTest
    \/ cleanupDelete
    \/ cleanupErase
    \/ sweepEnd
    \/ updateLabelsCallback
    \/ updateSensorUI

\* lvglTimerTask is an endless loop at the highest priority of the three
\* tasks: every 20 ms it runs the callbacks and the sweep to their end
SpecObjects ==
    /\ InitObjects
    /\ [][NextObjects]_vars
    /\ WF_vars(cleanupStep)
    /\ WF_vars(updateSensorUI)

----------------------------------------------------------------------------
(* Properties *)

\* the log of the last operation holds the line
Logged(line) == \E i \in 1..Len(last.log) : last.log[i] = line

\* the Scanning state a button press enters from a Timeout state
ScanningOf(state) ==
    IF state = TIMEOUT_FRONT THEN SCANNING_FRONT ELSE SCANNING_REAR

\* C1: in ScanningFront, when an upsert has just added a new address A to
\* the Registry, the next update tick moves the workflow to
\* WaitingFrontConfirm with the selected front address equal to A.
C1_NewestBecomesFront ==
    [][ (/\ last.op = "onDiscovered"
         /\ last.log = <<"Sensor found">>
         /\ m_state = SCANNING_FRONT
         /\ last'.op = "update")
        => (/\ m_state' = WAITING_FRONT_CONFIRM
            /\ m_selectedFrontAddress' = last.adv.address) ]_vars

\* a tick in ScanningRear has a candidate and it is the front address
CandidateIsFront ==
    /\ m_state = SCANNING_REAR
    /\ Len(m_data) > m_lastSensorCount
    /\ m_data[1].address = m_selectedFrontAddress

\* C2 (as stated): in ScanningRear a tick whose candidate address equals
\* the confirmed front address leaves the state ScanningRear and the
\* selected rear address empty.
C2_SameAsFrontStays ==
    [][ (CandidateIsFront /\ last'.op = "update")
        => (m_state' = SCANNING_REAR /\ m_selectedRearAddress' = NoAddr)
      ]_vars

\* C2 (amended): in ScanningRear a tick whose candidate address equals the
\* confirmed front address never accepts it: the selected rear address
\* stays empty and the state stays ScanningRear, or becomes TimeoutRear
\* when the countdown of the stage has run out at that tick.
C2_SameAsFrontNeverAccepted ==
    [][ (CandidateIsFront /\ last'.op = "update")
        => (/\ m_selectedRearAddress' = NoAddr
            /\ m_state' \in {SCANNING_REAR, TIMEOUT_REAR}
            /\ m_state' = TIMEOUT_REAR
                 => (m_scanStartTime > 0
                     /\ now - m_scanStartTime >= 60000))
      ]_vars

C2_Witness ==
    /\ last.op = "update"
    /\ last.state = SCANNING_REAR
    /\ Logged("Ignoring sensor - same as front")
    /\ m_state = SCANNING_REAR
    /\ m_selectedFrontAddress # NoAddr

\* no candidate has been accepted since the current stage began
StillInStage == m_state \in {stage.state, TimeoutOf(stage.state)}

\* C3 (as stated): when a Scanning state was entered at t0 (by init(), by
\* a button press or by the front confirmation) and no candidate has
\* appeared, after every update tick with now - t0 > 60000 the workflow is
\* in the matching Timeout state.
C3_TimeoutAfterAnyEntry ==
    (/\ last.op = "update"
     /\ stage.by # "none"
     /\ now - stage.at > 60000
     /\ StillInStage)
    => m_state = TimeoutOf(stage.state)

\* C3 (amended): when a Scanning state was entered at t0 by a button
\* press or by the front confirmation and no candidate has appeared, after
\* every update tick with now - t0 > 60000 the workflow is in the matching
\* Timeout state; the entry made by init() starts no countdown.
C3_TimeoutAfterStart ==
    (/\ last.op = "update"
     /\ stage.by \in {"button", "confirm"}
     /\ now - stage.at > 60000
     /\ StillInStage)
    => m_state = TimeoutOf(stage.state)

C3_Witness ==
    /\ last.op = "update"
    /\ stage.by = "confirm"
    /\ now - stage.at > 60000
    /\ m_state = TIMEOUT_REAR

\* C4: from TimeoutFront (TimeoutRear) nothing but a button press changes
\* the pairing state, and the button press enters ScanningFront
\* (ScanningRear) with the stage-start time set to the time of the press.
C4_TimeoutNeedsButton ==
    [][ (m_state \in {TIMEOUT_FRONT, TIMEOUT_REAR})
        => (IF last'.op = "handleButtonPress"
            THEN m_state' = ScanningOf(m_state) /\ m_scanStartTime' = now
            ELSE m_state' = m_state) ]_vars

C4_Witness ==
    /\ last.op = "handleButtonPress"
    /\ last.state = TIMEOUT_FRONT
    /\ m_state = SCANNING_FRONT
    /\ m_scanStartTime = now

\* C5: a button press in WaitingFrontConfirm moves the workflow to
\* ScanningRear, records the time of the press as the stage-start time and
\* leaves the selected front address unchanged.
C5_FrontConfirmStartsRear ==
    [][ (m_state = WAITING_FRONT_CONFIRM /\ last'.op = "handleButtonPress")
        => (/\ m_state' = SCANNING_REAR
            /\ m_scanStartTime' = now
            /\ m_selectedFrontAddress' = m_selectedFrontAddress) ]_vars

C5_Witness ==
    /\ last.op = "handleButtonPress"
    /\ last.state = WAITING_FRONT_CONFIRM
    /\ m_state = SCANNING_REAR
    /\ m_selectedFrontAddress \in Addresses

\* the requests end with: save front, save rear, restore the scan
\* parameters, restart -- in this order, and there is one restart only
SavedThenRestarted ==
    \E i, j, k \in 1..Len(calls) :
        /\ i < j /\ j < k /\ k < Len(calls)
        /\ calls[i] = Call("setString", "front_address",
                           m_selectedFrontAddress)
        /\ calls[j] = Call("setString", "rear_address",
                           m_selectedRearAddress)
        /\ calls[k] = Call("setWindow", "", <<50>>)
        /\ \A l \in 1..Len(calls) :
             calls[l].fn = "esp_restart" <=> l = Len(calls)

\* C6: a button press in WaitingRearConfirm saves both selected addresses
\* to the configuration, marks pairing complete (state Complete, paired
\* flag), restores the default scan parameters and then requests the
\* restart, in this order; the restart is requested in no other state.
C6_SaveThenRestart ==
    [][ /\ (m_state = WAITING_REAR_CONFIRM /\ last'.op = "handleButtonPress")
           => restarted'
        /\ restarted'
           => (/\ m_state = WAITING_REAR_CONFIRM
               /\ last'.op = "handleButtonPress"
               /\ m_state' = COMPLETE
               /\ isPaired' /\ m_pairingComplete'
               /\ config'.front_address = m_selectedFrontAddress
               /\ config'.rear_address = m_selectedRearAddress
               /\ SavedThenRestarted') ]_vars

C6_Witness ==
    /\ restarted
    /\ last.op = "handleButtonPress"
    /\ last.state = WAITING_REAR_CONFIRM
    /\ calls[Len(calls)].fn = "esp_restart"

\* C7: in WaitingRearConfirm and in Complete both selected addresses are
\* set and differ, and completion never reports a missing address.
C7_AddressesSetAndDistinct ==
    /\ m_state \in {WAITING_REAR_CONFIRM, COMPLETE}
       => (/\ m_selectedFrontAddress # NoAddr
           /\ m_selectedRearAddress # NoAddr
           /\ m_selectedRearAddress # m_selectedFrontAddress)
    /\ ~Logged("Error - missing sensor address")

C7_Witness ==
    /\ m_state = WAITING_REAR_CONFIRM
    /\ m_selectedFrontAddress \in Addresses
    /\ m_selectedRearAddress \in Addresses

\* C8: savePairingAndReboot called with an empty selected address saves
\* nothing, does not set the paired flag, requests no restart and leaves
\* the pairing state and both selected addresses unchanged.
C8_MissingAddressNoEffect ==
    [][ (/\ m_selectedFrontAddress = NoAddr \/ m_selectedRearAddress = NoAddr
         /\ last'.op = "savePairingAndReboot")
        => UNCHANGED <<config, calls, restarted, isPaired, frontAddress,
                       rearAddress, m_state, m_pairingComplete,
                       m_selectedFrontAddress, m_selectedRearAddress>>
      ]_vars

C8_Witness ==
    /\ last.op = "savePairingAndReboot"
    /\ m_selectedFrontAddress = NoAddr \/ m_selectedRearAddress = NoAddr
    /\ Logged("Error - missing sensor address")
    /\ ~restarted

\* C9: the Registry holds at most one entry per address, and after a valid
\* decode for an address its one entry holds the reading just decoded.
C9_OneEntryPerAddress ==
    /\ \A i, j \in 1..Len(m_data) :
         m_data[i].address = m_data[j].address => i = j
    /\ (last.op = "onDiscovered" /\ Parsed(last.adv, now) # {})
       => \E i \in 1..Len(m_data) :
            /\ m_data[i].address = last.adv.address
            /\ m_data[i].sensor \in Parsed(last.adv, now)

C9_Witness ==
    /\ last.op = "onDiscovered"
    /\ last.log = <<"Data changed">>
    /\ Len(m_data) = 2
    /\ \E i \in 1..Len(m_data) :
         /\ m_data[i].address = last.adv.address
         /\ m_data[i].sensor \in Parsed(last.adv, now)

\* C10: a sweep at time now removes exactly the entries older than
\* 7 minutes (now - observed_at > 420000) and keeps the others in place.
C10_SweepRemovesExactlyStale ==
    [][ last'.op = "cleanupOldSensors"
        => m_data' = SelectSeq(m_data,
                LAMBDA e : now - e.sensor.timestamp <= 420000) ]_vars

C10_Witness ==
    /\ last.op = "cleanupOldSensors"
    /\ last.log = <<"Cleanup complete">>
    /\ Len(m_data) = 1
    /\ now - m_data[1].sensor.timestamp = 420000

\* the callback has just upserted the entry of `address` while a sweep is
\* under way
UpsertedDuringSweep(address) ==
    /\ sweep.pc # "idle"
    /\ last.op = "onDiscovered"
    /\ last.adv.address = address
    /\ Parsed(last.adv, now) # {}

\* C11: a sweep never removes an entry that was inserted or replaced
\* after the sweep began; in particular an entry whose reading was
\* observed later than the sweep's own reading of the clock stays.
C11_SweepSparesNewerEntries ==
    [][ \A i \in 1..Len(m_data) :
          (\/ UpsertedDuringSweep(m_data[i].address)
           \/ (sweep.pc # "idle"
               /\ m_data[i].sensor.timestamp > sweep.currentTime))
          => contains(m_data', m_data[i].address) ]_vars

\* the device runs and the Registry holds an entry of `address` older
\* than 7 minutes
StaleEntry(address) ==
    /\ ~restarted
    /\ \E i \in 1..Len(m_data) :
         /\ m_data[i].address = address
         /\ now - m_data[i].sensor.timestamp > 420000

\* C13: in pairing mode and in monitoring mode, an entry whose age
\* exceeds 7 minutes is eventually removed by the periodic sweep, unless
\* a further advertisement replaces it (or the device restarts, which
\* clears the Registry).
C13_StaleEventuallyRemoved ==
    \A address \in Addresses :
        StaleEntry(address) ~> ~StaleEntry(address)

C13_Witness ==
    /\ isPaired
    /\ ~restarted
    /\ last.op = "cleanupOldSensors"
    /\ last.log = <<"Cleanup complete">>
    /\ m_data = <<>>

\* C14: no operation but the sweep removes an address from the Registry,
\* and an entry younger than the threshold (now - observed_at <= 420000)
\* stays until a reading at least as new replaces it.
C14_RemovedOnlyWhenStale ==
    [][ \A i \in 1..Len(m_data) :
          /\ last'.op # "cleanupOldSensors"
             => contains(m_data', m_data[i].address)
          /\ now - m_data[i].sensor.timestamp <= 420000
             => \E j \in 1..Len(m_data') :
                  /\ m_data'[j].address = m_data[i].address
                  /\ m_data'[j].sensor.timestamp
                       >= m_data[i].sensor.timestamp ]_vars

\* a valid TypeA buffer, in the words of the payload format: length 18,
\* markers 00 01 and EA CA, third byte at least 0x80
ValidTypeA(b) ==
    /\ Len(b) = 18
    /\ b[1] = 0 /\ b[2] = 1
    /\ b[4] = 234 /\ b[5] = 202
    /\ b[3] >= 128

\* a TypeB advertisement: length 11, and the service marker 0xA828 or an
\* address with the manufacturer prefix 37:39
TypeBAdvertisement(adv) ==
    /\ Len(adv.data) = 11
    /\ adv.uuid = 43048 \/ SubSeq(adv.address, 1, 2) = <<55, 57>>

\* the Registry holds an entry of the address with a reading of the
\* protocol variant, made at time `time`
HoldsReading(data, address, type, time) ==
    \E i \in 1..Len(data) :
        /\ data[i].address = address
        /\ data[i].sensor.type = type
        /\ data[i].sensor.timestamp = time

\* C15: an advertisement is upserted if and only if its payload is a
\* valid TypeA buffer, or has length 11 with the service marker 0xA828 or
\* an address prefix 37:39; any other advertisement leaves the Registry
\* unchanged; a payload valid as TypeA is decoded as TypeA.
C15_UpsertIffRecognised ==
    [][ last'.op = "onDiscovered"
        => IF ValidTypeA(last'.adv.data)
           THEN HoldsReading(m_data', last'.adv.address, "Type1", now)
           ELSE IF TypeBAdvertisement(last'.adv)
           THEN HoldsReading(m_data', last'.adv.address, "Type2", now)
           ELSE m_data' = m_data ]_vars

C15_Witness ==
    /\ last.op = "onDiscovered"
    /\ last.adv.address = AddrOther
    /\ last.adv.uuid = 43048
    /\ Len(last.adv.data) = 11
    /\ HoldsReading(m_data, AddrOther, "Type2", now)
    /\ Len(m_data) = 2

\* the four compared fields of two readings differ somewhere
MaterialChange(old, new) ==
    <<old.pressurePSI, old.temperatureC, old.battery, old.alert>>
        # <<new.pressurePSI, new.temperatureC, new.battery, new.alert>>

C17_TypeAFields ==
    [][ (last'.op = "onDiscovered" /\ ValidTypeA(last'.adv.data))
        => LET b == last'.adv.data
               r == find(m_data', last'.adv.address)
           IN  /\ contains(m_data', last'.adv.address)
               /\ r.battery = b[17]
               /\ r.alert = (b[18] = 1)
               /\ r.wheel = b[3] - 128
               /\ r.id = SubSeq(b, 6, 8)
               /\ b = <<0, 1, 129, 234, 202, 32, 4, 16, 35, 6, 0, 0,
                        31, 11, 0, 0, 9, 0>>
                  => (r.battery = 9 /\ ~r.alert /\ r.wheel = 1) ]_vars

C17_Witness ==
    /\ last.op = "onDiscovered"
    /\ last.adv.data = PayloadA1
    /\ contains(m_data, last.adv.address)
    /\ find(m_data, last.adv.address).battery = 9
    /\ find(m_data, last.adv.address).wheel = 1
    /\ ~find(m_data, last.adv.address).alert

\* C18: for a buffer whose length is not 18 the TypeA decoder returns
\* failure: no reading is constructed, whatever the buffer holds.
C18_WrongLengthFails ==
    (parsed.by = "TPMSUtil::parse" /\ Len(rawData.data) # 18)
    => parsed.sensors = {}

C18_Witness ==
    /\ parsed.by = "TPMSUtil::parse"
    /\ Len(rawData.data) = 19
    /\ SubSeq(rawData.data, 1, 5) = <<0, 1, 128, 234, 202>>
    /\ parsed.sensors = {}

\* C19: TypeA validation accepts a buffer exactly when its length is 18,
\* b[0] = 0x00, b[1] = 0x01, b[3] = 0xEA, b[4] = 0xCA and b[2] >= 0x80,
\* and the decoder returns a reading exactly for these buffers.
C19_ValidationExact ==
    parsed.by = "TPMSUtil::parse"
    => /\ (parsed.sensors # {}) <=> ValidTypeA(rawData.data)
       /\ \A r \in parsed.sensors :
            r.type = "Type1" /\ r.address = rawData.address

C19_Witness ==
    /\ parsed.by = "TPMSUtil::parse"
    /\ Len(rawData.data) = 18
    /\ rawData.data[3] = 127
    /\ SubSeq(rawData.data, 4, 5) = <<234, 202>>
    /\ parsed.sensors = {}

\* C20: every reading stored in the Registry has a role_hint in the
\* documented range of its protocol variant: 0..15 for TypeA, 1..4 for
\* TypeB.
C20_RoleHintInRange ==
    \A i \in 1..Len(m_data) :
        IF m_data[i].sensor.type = "Type1"
        THEN m_data[i].sensor.wheel \in 0..15
        ELSE m_data[i].sensor.wheel \in 1..4

\* C21: for every value of TypeB payload byte[1] the decoded battery
\* percentage lies in 0..100 and equals min((byte[1] * 0.1 - 2.0) * 100,
\* 100), that is min(10 * byte[1] - 200, 100), from 2.0 V upwards.
C21_BatteryPercentage ==
    (parsed.by = "TPMSUtil_Type2::parse" /\ Len(rawData.data) = 11)
    => \A r \in parsed.sensors :
         /\ r.battery \in 0..100
         /\ rawData.data[2] >= 20
            => r.battery = IF 10 * rawData.data[2] - 200 > 100 THEN 100
                           ELSE 10 * rawData.data[2] - 200

\* the distance of two integers
Distance(x, y) == IF x < y THEN y - x ELSE x - y

\* 0.10223139 * (high * 256 + low) - 14.61232950 in units of 1e-5 PSI,
\* byte by byte: 26.17123584 per unit of the high byte
CalibratedPsi(high, low) ==
    2617123 * high + (584 * high) \div 1000
    + 10223 * low + (139 * low) \div 1000 - 1461233

\* C22: the TypeB decoder converts raw = byte[3] * 256 + byte[4] with
\* psi = 0.10223139 * raw - 14.61232950; bytes 01 B3 (raw 435) decode to
\* a pressure within 0.2 PSI of 29.9.
C22_TypeBPressure ==
    (parsed.by = "TPMSUtil_Type2::parse" /\ Len(rawData.data) = 11)
    => \A r \in parsed.sensors :
         /\ Distance(r.pressurePSI,
                     CalibratedPsi(rawData.data[4], rawData.data[5])) <= 2
         /\ (rawData.data[4] = 1 /\ rawData.data[5] = 179)
            => Distance(r.pressurePSI, 2990000) <= 20000

C22_Witness ==
    /\ parsed.by = "TPMSUtil_Type2::parse"
    /\ Len(rawData.data) = 11
    /\ SubSeq(rawData.data, 4, 5) = <<1, 179>>
    /\ \E r \in parsed.sensors : Distance(r.pressurePSI, 2990000) <= 20000

\* bytes 8..11 of a TypeA buffer as a signed 32-bit little-endian value:
\* the pressure in kPa * 1000
PressureRaw(b) ==
    b[9] + 256 * b[10] + 65536 * b[11]
    + 16777216 * (IF b[12] >= 128 THEN b[12] - 256 ELSE b[12])

\* raw * 14.5037738: kPa * 0.145037738 in units of 1e-5 PSI
PsiOfKpa(raw) ==
    raw * 14 + (raw \div 10000) * 5038 + ((raw % 10000) * 5038) \div 10000

\* C23: for every valid TypeA buffer, with pressure_kpa the signed 32-bit
\* little-endian value of bytes 8..11 divided by 1000, the reading has
\* pressure_bar = pressure_kpa / 100 and pressure_psi = pressure_kpa *
\* 0.145037738 (to four significant digits).
C23_PressureUnits ==
    parsed.by = "TPMSUtil::parse"
    => \A r \in parsed.sensors :
         LET raw == PressureRaw(rawData.data)
             psi == PsiOfKpa(raw)
         IN  /\ r.pressureBar = raw
             /\ Distance(r.pressurePSI, psi)
                  <= Distance(psi, 0) \div 10000 + 2

C23_Witness ==
    /\ parsed.by = "TPMSUtil::parse"
    /\ Len(rawData.data) = 18
    /\ SubSeq(rawData.data, 9, 12) = <<0, 0, 0, 248>>
    /\ \E r \in parsed.sensors :
         r.pressureBar = -134217728 /\ r.pressurePSI < -1900000000

\* the function `name` is among the calls of a loop iteration
Called(calledFunctions, name) ==
    \E i \in 1..Len(calledFunctions) : calledFunctions[i] = name

\* a step that is one iteration of the control loop in normal mode, after
\* which the main/pair screen is shown
NormalTick ==
    /\ last'.op = "controlLogicTask"
    /\ now' # now
    /\ ~m_wifiConfigMode
    /\ mainShown'

\* C24 as stated: on every control-loop tick after the main/pair screen is
\* shown in normal mode, an unpaired system advances the pairing workflow
\* and requests no UI refresh, and a paired system requests a UI refresh
\* and does not advance the pairing workflow.
C24_ExactlyOne ==
    [][NormalTick =>
         IF ~isPaired
         THEN /\ Called(invoked', "update")
              /\ ~Called(invoked', "updateLabelsCallback")
         ELSE /\ Called(invoked', "updateLabelsCallback")
              /\ ~Called(invoked', "update")
              /\ ~Called(invoked', "handleButtonPress")]_vars

\* C24 amended: as C24, except that a paired tick whose button handling
\* calls esp_restart() (a long or very long press) requests no UI refresh.
C24_ExactlyOneUnlessRestart ==
    [][NormalTick =>
         IF ~isPaired
         THEN /\ Called(invoked', "update")
              /\ ~Called(invoked', "updateLabelsCallback")
         ELSE /\ Called(invoked', "updateLabelsCallback") <=> ~restarted'
              /\ ~Called(invoked', "update")
              /\ ~Called(invoked', "handleButtonPress")]_vars

C24_Witness ==
    /\ last.op = "controlLogicTask"
    /\ ~m_wifiConfigMode
    /\ isPaired
    /\ Called(invoked, "cycleBrightness")
    /\ Called(invoked, "updateLabelsCallback")
    /\ ~Called(invoked, "update")

\* the press actions a loop iteration dispatched
Dispatched(calledFunctions) ==
    { f \in {"handleShortPress", "handleLongPress", "handleVeryLongPress"} :
        Called(calledFunctions, f) }

\* C25: in normal mode every press-release cycle of the button dispatches
\* exactly one action, the one of its hold duration d: short for d < 2000,
\* long for 2000 <= d < 15000, very long for d >= 15000.  A cycle ends with
\* the iteration that reads the button released, or with the restart of a
\* very long press; until then nothing is dispatched.
C25_OneActionPerCycle ==
    [][(NormalTick /\ ~buttonState.lastState /\ ~buttonState.pressHandled
        /\ Called(invoked', "handleButtonInput"))
       => LET d == now' - buttonState.pressStartTime
          IN  IF buttonState'.lastState
              THEN Dispatched(invoked') =
                     IF d < 2000 THEN {"handleShortPress"}
                     ELSE IF d < 15000 THEN {"handleLongPress"}
                     ELSE {"handleVeryLongPress"}
              ELSE Dispatched(invoked') =
                     IF d >= 15000 THEN {"handleVeryLongPress"} ELSE {}]_vars

\* C26: scanning is continuous: the scan-end callback starts the scan
\* again with the parameters it had, by itself (no state of the control
\* loop changes), so that in normal mode the scan is running after every
\* step.
C26_ScanRestarted ==
    [][/\ last'.op = "onScanEnd"
          => /\ scan'.running
             /\ scan'.duration > 0
             /\ scan'.window = scan.window
             /\ UNCHANGED <<now, invoked, buttonState, pairVars, calls>>
       /\ ~m_wifiConfigMode' => scan'.running]_vars

C26_Witness ==
    /\ last.op = "onScanEnd"
    /\ ~m_wifiConfigMode
    /\ scan = NormalScan

\* C27: the pairing workflow only reads the Registry: no loop iteration
\* (init, update with checkForNewSensor, handleButtonPress, completion)
\* inserts, replaces or removes an entry.
C27_PairingReadsRegistry ==
    [][last'.op = "controlLogicTask" => m_data' = m_data]_vars

C27_Witness ==
    /\ last.op = "controlLogicTask"
    /\ Called(invoked, "update")
    /\ Called(invoked, "handleButtonPress")
    /\ m_pairingComplete
    /\ Len(m_data) = 2

\* C28: in normal mode the scan window is the aggressive one (99) from
\* PairController::init() until completion and the default one (50)
\* otherwise; completion requests the default window before esp_restart.
C28_ScanParameters ==
    ~m_wifiConfigMode
    => /\ scan.window = IF mainShown /\ ~isPaired
                        THEN PAIRING_SCAN_WINDOW ELSE NORMAL_SCAN_WINDOW
       /\ (mainShown /\ ~isPaired)
          => calls[Len(calls)] \in
               { Call("setWindow", "", <<PAIRING_SCAN_WINDOW>>),
                 Call("esp_restart", "", <<>>) }
       /\ m_pairingComplete
          => /\ Len(calls) >= 2
             /\ calls[Len(calls) - 1] =
                  Call("setWindow", "", <<NORMAL_SCAN_WINDOW>>)
             /\ calls[Len(calls)] = Call("esp_restart", "", <<>>)

C28_Witness ==
    /\ m_pairingComplete
    /\ restarted
    /\ scan.window = NORMAL_SCAN_WINDOW
    /\ \E i \in 1..Len(calls) :
         calls[i] = Call("setWindow", "", <<PAIRING_SCAN_WINDOW>>)

\* C29: pairing survives the restart: the boot that follows a completion
\* with front address F and rear address R leaves the system paired with
\* front F and rear R in normal mode, and from then on the loop requests
\* the UI refresh and does not run the pairing workflow.
C29_PairingSurvivesRestart ==
    [][/\ (m_pairingComplete /\ last'.op = "boot")
          => /\ isPaired'
             /\ frontAddress' = m_selectedFrontAddress
             /\ rearAddress' = m_selectedRearAddress
             /\ frontAddress' # NoAddr /\ rearAddress' # NoAddr
             /\ ~m_wifiConfigMode'
       /\ (NormalTick /\ isPaired /\ ~m_pairingComplete /\ ~restarted')
          => /\ Called(invoked', "updateLabelsCallback")
             /\ ~Called(invoked', "update")
             /\ m_state' = m_state]_vars

\* the device paired itself with the DE:AD sensor in front, restarted and
\* refreshes the UI
C29_Witness ==
    /\ isPaired
    /\ ~m_pairingComplete
    /\ frontAddress = AddrTC
    /\ rearAddress = AddrOther
    /\ config = [front_address |-> AddrTC, rear_address |-> AddrOther]
    /\ Called(invoked, "updateLabelsCallback")

C31_ConfigModeDisablesPipeline ==
    [][m_wifiConfigMode
       => /\ m_wifiConfigMode' => (m_data' = <<>> /\ ~scan'.running)
          /\ last'.op # "onDiscovered"
          /\ last'.op = "controlLogicTask"
             => /\ ~Called(invoked', "init")
                /\ ~Called(invoked', "update")
                /\ ~Called(invoked', "handleButtonPress")
                /\ ~Called(invoked', "updateLabelsCallback")
                /\ UNCHANGED pairVars]_vars

\* an object made with new that the map no longer points to and that
\* delete was not applied to
Unreferenced(object) ==
    /\ object \in 1..heap.allocated
    /\ object \notin Referenced(heap)
    /\ object \notin heap.deleted

\* C32: a reading object that an upsert replaced in the Registry is
\* freed later by the cleanup task: every allocated object that the
\* Registry does not reference is eventually deleted.
C32_ReplacedEventuallyFreed ==
    \A object \in 1..MaxObjects :
      Unreferenced(object) ~> (object \in heap.deleted)

\* C39: no context reads a reading object after it was freed: under
\* every interleaving of the radio callback, the sweep and the UI
\* refresh, no access goes through a pointer to a deleted object.
C39_NoReadAfterDelete == ~heap.read.freed

\* the step is an update tick that accepts the address as the candidate
\* for the wheel being scanned
AcceptedAsCandidate(address) ==
    IF m_state = SCANNING_FRONT
    THEN /\ m_state' = WAITING_FRONT_CONFIRM
         /\ m_selectedFrontAddress' = address
    ELSE /\ m_state' = WAITING_REAR_CONFIRM
         /\ m_selectedRearAddress' = address

\* C33: an address that entered the Registry since the previous tick is
\* treated as the candidate by the next update tick in a Scanning state,
\* whatever the size of the Registry was before.  Stated for a new
\* address that differs from the front address and is the only entry of
\* the Registry, so that it can only be accepted and no other address
\* can be the candidate.
C33_NewSensorDetected ==
    [][(/\ last.op = "onDiscovered"
        /\ last.log = <<"Sensor found">>
        /\ Len(m_data) = 1
        /\ m_state \in Scanning
        /\ last.adv.address # m_selectedFrontAddress
        /\ last'.op = "update")
       => AcceptedAsCandidate(last.adv.address)]_vars

\* C34: after init() the front countdown does not run before the button
\* is pressed: in ScanningFront as init() left it no update tick enters
\* TimeoutFront, whatever the time; the first press starts the countdown
\* at the time of the press, and from then on a tick enters TimeoutFront
\* only 60 s or more after the press.
C34_CountdownWaitsForPress ==
    [][/\ (m_state = SCANNING_FRONT /\ stage.by = "init"
           /\ last'.op = "update")
          => (m_state' # TIMEOUT_FRONT /\ m_scanStartTime' = 0)
       /\ (m_state = SCANNING_FRONT /\ stage.by = "init"
           /\ last'.op = "handleButtonPress")
          => (m_state' = SCANNING_FRONT /\ m_scanStartTime' = now)
       /\ (m_state = SCANNING_FRONT /\ stage.by = "button"
           /\ last'.op = "update" /\ m_state' = TIMEOUT_FRONT)
          => now - stage.at >= SCAN_TIMEOUT_MS]_vars

\* two timeouts after init() a tick has left ScanningFront as it was
C34_Witness ==
    /\ last.op = "update"
    /\ m_state = SCANNING_FRONT
    /\ stage.by = "init"
    /\ now >= stage.at + 2 * SCAN_TIMEOUT_MS

\* C35: with two sensors of distinct addresses advertising again and
\* again and a user who presses in every Waiting and Timeout state, the
\* workflow eventually reaches Complete.
C35_PairingCompletes == <>(m_state = COMPLETE)

\* the tick that starts in the current state accepts a candidate: the
\* Registry has grown since the last tick and its first address is not
\* the front address while the rear is scanned
CandidateAccepted ==
    /\ m_state \in Scanning
    /\ NewSensorAppeared(Len(m_data), m_lastSensorCount)
    /\ (m_state = SCANNING_REAR
        => NewestAddress(m_data) # m_selectedFrontAddress)

\* the countdown of the current stage has run out
CountdownOver ==
    /\ m_scanStartTime > 0
    /\ now - m_scanStartTime >= SCAN_TIMEOUT_MS

\* C36: within one update tick the candidate detection takes precedence
\* over the timeout: a tick that accepts a candidate moves to the matching
\* Waiting state also when the countdown has run out, and a Timeout state
\* is entered only by a tick that accepts no candidate with the countdown
\* run out.
C36_CandidateBeforeTimeout ==
    [][(last'.op = "update" /\ m_state \in Scanning)
       => /\ CandidateAccepted
             => m_state' = (IF m_state = SCANNING_FRONT
                            THEN WAITING_FRONT_CONFIRM
                            ELSE WAITING_REAR_CONFIRM)
          /\ m_state' \in {TIMEOUT_FRONT, TIMEOUT_REAR}
             => /\ ~CandidateAccepted
                /\ CountdownOver
                /\ m_state' = TimeoutOf(m_state)]_vars

\* a tick has accepted a candidate with the countdown run out
C36_Witness ==
    /\ last.op = "update"
    /\ last.state \in Scanning
    /\ m_state \in {WAITING_FRONT_CONFIRM, WAITING_REAR_CONFIRM}
    /\ CountdownOver

\* the workflow waits for the confirmation of a candidate
Waiting == {WAITING_FRONT_CONFIRM, WAITING_REAR_CONFIRM}

\* C37: in WaitingFrontConfirm and WaitingRearConfirm no update tick, no
\* passage of time and no change of the Registry (an upsert, the eviction
\* of the selected candidate) changes the state, the selected addresses
\* or the stage timer.
C37_WaitingIsStable ==
    [][(/\ m_state \in Waiting
        /\ last'.op \in {"update", "Advance", "onDiscovered",
                         "cleanupOldSensors"})
       => UNCHANGED pairVars]_vars

\* a tick has run in WaitingFrontConfirm after the eviction of the
\* selected candidate
C37_Witness ==
    /\ last.op = "update"
    /\ last.state = WAITING_FRONT_CONFIRM
    /\ m_state = WAITING_FRONT_CONFIRM
    /\ ~contains(m_data, m_selectedFrontAddress)
    /\ now - stage.at >= SCAN_TIMEOUT_MS

\* the states of the rear stage and after it
RearStage == {SCANNING_REAR, WAITING_REAR_CONFIRM, TIMEOUT_REAR, COMPLETE}

\* the loop with the workflow in Complete
Completed == [ControlState EXCEPT !.p.state = COMPLETE]

C12_NoUpsertDuringIteration ==
    [][ (sweep.pc # "idle" /\ last'.op = "onDiscovered")
        => m_data' = m_data ]_vars

====
